---- MODULE Spec2Model ----
(***************************************************************************)
(* AcceleratorConnector (pytorch_lightning/trainer/connectors/             *)
(* accelerator_connector.py): the resolution, from the Trainer's arguments *)
(* and the process environment, of device type, distributed type, cluster  *)
(* environment, training-type plugin, precision plugin and accelerator.    *)
(*                                                                         *)
(* The connector is the record `conn`; the constructor's arguments and the *)
(* environment it reads are the record `inp`, fixed by Init.  Every method *)
(* is an operator from connector record to connector record; a raised      *)
(* exception is the field `err`, and an operator leaves the record as the  *)
(* code had left it when it raised.                                        *)
(***************************************************************************)
EXTENDS Integers, Sequences, FiniteSets, TLC

VARIABLES inp, conn, pc, reads, thr

vars == <<inp, conn, pc, reads, thr>>

-----------------------------------------------------------------------------
(* Encodings of Python values.                                             *)

\* None, where the other values are strings.
None == "None"
\* None, where the other values are integers (all of which are >= 0).
NoneInt == -1
\* hasattr(obj, field) is False: the integer field does not exist.
AbsentInt == -2
\* parallel_device_ids is None (device ids are >= 0).
NoneIds == <<-1>>
\* No exception has been raised.
NoErr == "none"

\* The Accelerator instance a user may pass as `distributed_backend`.
AcceleratorObj == "<Accelerator>"

IsAccelerator(b) == b = AcceleratorObj

IsStr(b) == b # None /\ ~IsAccelerator(b)

Range(n) == [i \in 1..n |-> i - 1]

\* A list of devices; kind "None" is Python's None, "absent" a missing attribute.
Devices(kind, ids) == [kind |-> kind, ids |-> ids]

NoDevices == Devices("None", <<>>)

AbsentDevices == Devices("absent", <<>>)

\* An object known by its class and its identity.
Obj(cls, id) == [cls |-> cls, id |-> id]

NoObj == Obj("None", 0)

AbsentObj == Obj("absent", 0)

\* tpu_cores after device_parser.parse_tpu_cores: None, an int, or a list of one core id.
TpuNone == [kind |-> "none", n |-> 0]

TpuInt(n) == [kind |-> "int", n |-> n]

TpuList(k) == [kind |-> "list", n |-> k]

\* A plugin hint: a str, or an object of one of the plugin base classes (or of none).
StrHint(name) == [kind |-> "str", name |-> name, id |-> 0]

ObjHint(kind, cls, id) == [kind |-> kind, name |-> cls, id |-> id]

-----------------------------------------------------------------------------
(* Collaborators that the connector imports.                               *)

\* DistributedType's members, by value.
DistributedTypeValues ==
    {"dp", "ddp", "ddp2", "ddp_spawn", "tpu_spawn", "deepspeed", "horovod",
     "ddp_sharded", "ddp_sharded_spawn", "ddp_fully_sharded"}

\* DistributedType.interactive_compatible_types()
InteractiveCompatibleTypes == {"dp", "ddp_spawn", "ddp_sharded_spawn"}

\* The names registered in TrainingTypePluginsRegistry.
TrainingTypePluginsRegistry == {"deepspeed", "ddp_find_unused_parameters_false"}

\* TrainingTypePluginsRegistry[name]["distributed_backend"]
RegistryBackend(name) == IF name = "deepspeed" THEN "deepspeed" ELSE "ddp"

\* The class of TrainingTypePluginsRegistry[name]["plugin"]
RegistryPluginCls(name) == IF name = "deepspeed" THEN "DeepSpeedPlugin" ELSE "DDPPlugin"

\* 'cpu' in distributed_backend, for the backend names of the model.
MentionsCpu(b) == b \in {"ddp_cpu"}

-----------------------------------------------------------------------------
(* Properties of the connector.                                            *)

num_gpus(s) == IF s.parallel_device_ids = NoneIds THEN 0 ELSE Len(s.parallel_device_ids)

on_cpu(s) == s.device_type = "CPU"

on_tpu(s) == s.tpu_cores.kind # "none"

on_ipu(s) == s.ipus # NoneInt

on_gpu(s, e) ==
    /\ s.parallel_device_ids # NoneIds
    /\ Len(s.parallel_device_ids) > 0
    /\ e.cuda_available

use_dp(s) == s.distrib_type = "dp"

DdpFamily ==
    {"ddp", "ddp_spawn", "ddp_sharded", "ddp_sharded_spawn", "ddp_fully_sharded",
     "deepspeed", "tpu_spawn"}

use_ddp(s) == s.distrib_type \in DdpFamily

use_ddp2(s) == s.distrib_type = "ddp2"

use_horovod(s) == s.distrib_type = "horovod"

use_deepspeed(s) == s.distrib_type = "deepspeed"

is_training_type_in_plugins(s) ==
    \E i \in 1..Len(s.plugins) :
        s.plugins[i].kind = "str" /\ s.plugins[i].name \in TrainingTypePluginsRegistry

has_horovodrun(e) == e.horovodrun

Ok(s) == s.err = NoErr

Raise(s, name) == [s EXCEPT !.err = name]

Warn(s, name) == [s EXCEPT !.warns = @ \cup {name}]

-----------------------------------------------------------------------------
(* set_distributed_mode and what it calls.                                 *)

check_horovod(s, e) ==
    IF ~e.horovod_available THEN Raise(s, "HorovodNotInstalled")
    ELSE IF num_gpus(s) > 1 \/ s.num_nodes > 1 THEN Raise(s, "HorovodExplicitDevices")
    ELSE s

\* Lines 656-664: the type, and the devices or processes Horovod reports.
HorovodInit(s, e) ==
    IF ~Ok(s) THEN s
    ELSE IF on_gpu(s, e)
    THEN [s EXCEPT !.distrib_type = "horovod",
                   !.parallel_device_ids = Range(e.hvd_local_size)]
    ELSE [s EXCEPT !.distrib_type = "horovod", !.num_processes = e.hvd_local_size]

set_horovod_backend(s, e) == HorovodInit(check_horovod(s, e), e)

check_interactive_compatibility(s, e) ==
    IF /\ e.is_interactive
       /\ s.distrib_type # None
       /\ s.distrib_type \notin InteractiveCompatibleTypes
    THEN Raise(s, "InteractiveIncompatible")
    ELSE s

\* Lines 557-560: the backend named by the argument replaces the connector's.
SdmBackend(s, db) ==
    IF db # None /\ db \in TrainingTypePluginsRegistry
    THEN [s EXCEPT !.distributed_backend = RegistryBackend(db)]
    ELSE IF db # None THEN [s EXCEPT !.distributed_backend = db]
    ELSE s

\* As if several GPUs without a backend were left as they are.
SdmInferLeavesGpus(s, e) ==
    IF s.distributed_backend # None THEN s
    ELSE IF has_horovodrun(e) THEN set_horovod_backend(s, e)
    ELSE IF num_gpus(s) = 0 /\ s.num_nodes <= 1 /\ s.num_processes = NoneInt
         THEN Raise(s, "TypeError")
    ELSE IF num_gpus(s) = 0 /\ (s.num_nodes > 1 \/ s.num_processes > 1)
         THEN [s EXCEPT !.distrib_type = "ddp"]
    ELSE s

\* Lines 565-575: no backend given.
SdmInfer(s, e) ==
    IF s.distributed_backend # None THEN s
    ELSE IF has_horovodrun(e) THEN set_horovod_backend(s, e)
    ELSE IF num_gpus(s) = 0 /\ s.num_nodes <= 1 /\ s.num_processes = NoneInt
         THEN Raise(s, "TypeError")
    ELSE IF num_gpus(s) = 0 /\ (s.num_nodes > 1 \/ s.num_processes > 1)
         THEN [s EXCEPT !.distrib_type = "ddp"]
    ELSE IF num_gpus(s) > 1
         THEN [Warn(s, "MultiGpuNoBackend") EXCEPT !.distributed_backend = "ddp_spawn"]
    ELSE s

\* Lines 577-596: ddp_cpu, TPU, IPU, and the backend's name taken as the type.
SdmSpecial(s, e) ==
    IF ~Ok(s) THEN s
    ELSE IF s.distributed_backend = "ddp_cpu"
    THEN LET s1 == [s EXCEPT !.distrib_type = "ddp_spawn"]
             s2 == IF num_gpus(s1) > 0
                   THEN [Warn(s1, "DdpCpuGpusUnused") EXCEPT !.parallel_device_ids = NoneIds]
                   ELSE s1
         IN  IF s2.num_processes = NoneInt
             THEN [s2 EXCEPT !.num_processes = e.cpu_count]
             ELSE s2
    ELSE IF s.distributed_backend = "tpu" \/ s.tpu_cores.kind # "none"
    THEN LET s1 == [s EXCEPT !.device_type = "TPU"]
         IN  IF s.tpu_cores.kind = "int"
             THEN [s1 EXCEPT !.distrib_type = "tpu_spawn"]
             ELSE s1
    ELSE IF s.distributed_backend = "ipu"
    THEN [s EXCEPT !.device_type = "IPU"]
    ELSE IF s.distributed_backend # None /\ s.distrib_type = None
    THEN IF s.distributed_backend \in DistributedTypeValues
         THEN [s EXCEPT !.distrib_type = s.distributed_backend]
         ELSE Raise(s, "ValueError")
    ELSE s

on_cpu_backend(s) == s.distributed_backend # None /\ MentionsCpu(s.distributed_backend)

\* As if the GPU were taken whether or not one was requested.
SdmPromoteAlways(s) ==
    IF ~Ok(s) THEN s
    ELSE IF ~on_cpu_backend(s) THEN [s EXCEPT !.device_type = "GPU"]
    ELSE s

\* Lines 598-601: GPUs are used unless the backend asks for the CPU.
SdmPromote(s) ==
    IF ~Ok(s) THEN s
    ELSE IF num_gpus(s) > 0 /\ ~on_cpu_backend(s)
    THEN [s EXCEPT !.device_type = "GPU"]
    ELSE s

gpu_distrib_types == {"dp", "ddp", "ddp_spawn", "ddp2"}

\* As if kinds that need GPUs were kept without any.
SdmGuardNever(s) == s

\* As if the kind were always taken away where no GPU is there.
SdmGuardUnsets(s) ==
    IF ~Ok(s) THEN s
    ELSE IF num_gpus(s) = 0 /\ s.distrib_type \in gpu_distrib_types /\ ~on_cpu_backend(s)
    THEN [Warn(Warn(s, "NoGpuFallback"), "NoParallelization") EXCEPT !.distrib_type = None]
    ELSE s

\* Lines 603-614: DP and DDP2 cannot run without GPU.
SdmGuard(s) ==
    IF ~Ok(s) THEN s
    ELSE IF num_gpus(s) = 0 /\ s.distrib_type \in gpu_distrib_types /\ ~on_cpu_backend(s)
    THEN LET s1 == Warn(s, "NoGpuFallback")
         IN  IF s.num_nodes > 1 \/ (s.num_processes # NoneInt /\ s.num_processes > 1)
             THEN [s1 EXCEPT !.distrib_type = "ddp"]
             ELSE [Warn(s1, "NoParallelization") EXCEPT !.distrib_type = None]
    ELSE s

\* Lines 616-617.
SdmInteractive(s, e) == IF ~Ok(s) THEN s ELSE check_interactive_compatibility(s, e)

\* Lines 619-627: for DDP overwrite nb processes by requested GPUs.
SdmProcs(s) ==
    IF ~Ok(s) THEN s
    ELSE LET s1 == IF s.device_type = "GPU" /\ s.distrib_type \in {"ddp", "ddp_spawn"}
                   THEN [s EXCEPT !.num_processes = num_gpus(s)]
                   ELSE s
         IN  IF s1.device_type = "GPU" /\ s1.distrib_type = "ddp2"
             THEN [s1 EXCEPT !.num_processes = s1.num_nodes]
             ELSE s1

\* Lines 629-631: Horovod is an extra case.
SdmHorovod(s, e) ==
    IF ~Ok(s) THEN s
    ELSE IF s.distributed_backend = "horovod" THEN set_horovod_backend(s, e)
    ELSE s

\* As if the number of nodes were never validated.
SdmValidateNothing(s) == s

\* Lines 633-639.
SdmValidate(s) ==
    IF ~Ok(s) THEN s
    ELSE IF s.num_nodes > 1 /\ ~(use_ddp(s) \/ use_ddp2(s))
    THEN Raise(s, "MultiNodeUnsupported")
    ELSE s

\* Lines 641-652.
SdmReport(s, e) ==
    IF ~Ok(s) THEN s
    ELSE IF e.cuda_available /\ s.device_type # "GPU" THEN Warn(s, "GpuUnused")
    ELSE s

\* Lines 562-652, the backend being set.
SdmResolve(s, e) ==
    IF IsAccelerator(s.distributed_backend) THEN s
    ELSE SdmReport(
           SdmValidate(
             SdmHorovod(
               SdmProcs(
                 SdmInteractive(
                   SdmGuard(SdmPromote(SdmSpecial(SdmInfer(s, e), e))), e)), e)), e)

\* As if the resolution ran whatever the hints.
SetDistributedModeAlways(s, e, db) == SdmResolve(SdmBackend(s, db), e)

set_distributed_mode(s, e, db) ==
    IF db = None /\ is_training_type_in_plugins(s) THEN s
    ELSE SdmResolve(SdmBackend(s, db), e)

-----------------------------------------------------------------------------
(* configure_slurm_ddp                                                     *)

\* As if the task count were never compared.
SlurmDetectNever(s, e) ==
    IF ~(use_ddp(s) \/ use_ddp2(s)) THEN s
    ELSE [s EXCEPT !.is_slurm_managing_tasks = FALSE]

\* As if the job's name were never looked at.
SlurmDetectAnyJob(s, e) ==
    IF ~(use_ddp(s) \/ use_ddp2(s)) THEN s
    ELSE IF e.slurm_ntasks = NoneInt THEN [s EXCEPT !.is_slurm_managing_tasks = FALSE]
    ELSE IF num_gpus(s) * s.num_nodes = 0
    THEN [s EXCEPT !.is_slurm_managing_tasks = (e.slurm_ntasks = s.num_processes)]
    ELSE [s EXCEPT !.is_slurm_managing_tasks = (e.slurm_ntasks = num_gpus(s) * s.num_nodes)]

\* Lines 702-720: the task count decides, unless the job is an interactive shell;
\* a missing or malformed variable raises inside the try, and the flag is False.
SlurmDetect(s, e) ==
    IF ~(use_ddp(s) \/ use_ddp2(s)) THEN s
    ELSE IF e.slurm_ntasks = NoneInt THEN [s EXCEPT !.is_slurm_managing_tasks = FALSE]
    ELSE LET num_requested_gpus == num_gpus(s) * s.num_nodes
             managing == IF num_requested_gpus = 0
                         THEN e.slurm_ntasks = s.num_processes
                         ELSE e.slurm_ntasks = num_requested_gpus
         IN  IF e.slurm_job_name = None THEN [s EXCEPT !.is_slurm_managing_tasks = FALSE]
             ELSE IF e.slurm_job_name = "bash"
                  THEN [s EXCEPT !.is_slurm_managing_tasks = FALSE]
             ELSE [s EXCEPT !.is_slurm_managing_tasks = managing]

\* Lines 722-728: FAKE_SLURM_MANAGING_TASKS, used for tests only.
SlurmFake(s, e) ==
    IF e.fake_slurm # NoneInt /\ e.fake_slurm # 0
    THEN [s EXCEPT !.is_slurm_managing_tasks = TRUE]
    ELSE s

configure_slurm_ddp(s, e) == SlurmFake(SlurmDetect(s, e), e)

-----------------------------------------------------------------------------
(* Cluster environment, devices, and the training-type plugin.             *)

\* A value together with the connector as the call left it.
Ret(s, v) == [s |-> s, v |-> v]

\* Lines 542-549: the class of the environment a fresh selection constructs.
ClusterEnvironmentCls(s, e) ==
    IF s.is_slurm_managing_tasks THEN "SLURMEnvironment"
    ELSE IF e.is_using_torchelastic THEN "TorchElasticEnvironment"
    ELSE IF e.is_using_kubeflow THEN "KubeflowEnvironment"
    ELSE "LightningEnvironment"

\* As if the environment were chosen anew at every call.
SelectClusterEnvironmentAnew(s, e) ==
    Ret([s EXCEPT !.next_id = @ + 1], Obj(ClusterEnvironmentCls(s, e), s.next_id))

select_cluster_environment(s, e) ==
    IF s.cluster_environment # NoObj THEN Ret(s, s.cluster_environment)
    ELSE Ret([s EXCEPT !.next_id = @ + 1], Obj(ClusterEnvironmentCls(s, e), s.next_id))

\* The property parallel_devices; a kind that names an exception is that exception.
parallel_devices(s, e) ==
    IF on_gpu(s, e) THEN Devices("cuda", s.parallel_device_ids)
    ELSE IF on_tpu(s)
    THEN IF s.tpu_cores.kind = "int" THEN Devices("int", Range(s.tpu_cores.n))
         ELSE Devices("UnboundLocalError", <<>>)
    ELSE IF on_ipu(s) THEN Devices("int", Range(s.ipus))
    ELSE IF s.num_processes = NoneInt THEN Devices("TypeError", <<>>)
    ELSE Devices("cpu", [i \in 1..s.num_processes |-> 0])

DevicesRaised(d) == d.kind \in {"UnboundLocalError", "TypeError"}

\* The plugin classes that take num_nodes, sync_batchnorm and num_processes.
DdpPluginClasses ==
    {"DDPPlugin", "DDPSpawnPlugin", "DDP2Plugin", "DDPShardedPlugin",
     "DDPSpawnShardedPlugin", "DDPFullyShardedPlugin", "DeepSpeedPlugin", "TPUSpawnPlugin"}

\* The plugin classes that take parallel_devices and cluster_environment.
ParallelPluginClasses ==
    DdpPluginClasses \cup {"DataParallelPlugin", "HorovodPlugin", "IPUPlugin"}

\* A training-type plugin as its class's constructor leaves it.
Strategy(cls, devs, env, device) ==
    [cls                 |-> cls,
     parallel_devices    |-> IF cls \in ParallelPluginClasses THEN devs ELSE AbsentDevices,
     cluster_environment |-> IF cls \in ParallelPluginClasses THEN env ELSE AbsentObj,
     num_processes       |-> IF cls \notin DdpPluginClasses THEN AbsentInt
                             ELSE IF devs.kind = "None" THEN NoneInt ELSE Len(devs.ids),
     num_nodes           |-> IF cls \in DdpPluginClasses THEN 1 ELSE AbsentInt,
     sync_batchnorm      |-> IF cls \in DdpPluginClasses THEN 0 ELSE AbsentInt,
     device              |-> device]

\* Allocates the object: its identity is its place in the heap.
New(s, strategy) == Ret([s EXCEPT !.strategies = Append(@, strategy)], Len(s.strategies) + 1)

\* As if the class followed the kind and the launchers alone, wherever it runs.
DdpPluginClsByKind(s, e) ==
    IF on_tpu(s) /\ s.distrib_type = "tpu_spawn" THEN "TPUSpawnPlugin"
    ELSE IF s.distrib_type = "ddp_sharded" THEN "DDPShardedPlugin"
    ELSE IF s.distrib_type = "ddp_sharded_spawn" THEN "DDPSpawnShardedPlugin"
    ELSE IF \/ s.is_slurm_managing_tasks
            \/ e.is_using_torchelastic /\ ~e.in_ddp_subprocess
            \/ e.is_using_kubeflow
         THEN "DDPPlugin"
    ELSE IF s.distrib_type = "ddp_spawn" THEN "DDPSpawnPlugin"
    ELSE IF s.distrib_type = "ddp_fully_sharded" THEN "DDPFullyShardedPlugin"
    ELSE "DDPPlugin"

\* Lines 440-474: the class of the DDP family's plugin.
DdpPluginCls(s, e) ==
    LET use_slurm_ddp == use_ddp(s) /\ s.is_slurm_managing_tasks
        use_torchelastic_ddp ==
            use_ddp(s) /\ e.is_using_torchelastic /\ ~e.in_ddp_subprocess
        use_kubeflow_ddp == use_ddp(s) /\ e.is_using_kubeflow
        use_ddp_spawn == s.distrib_type = "ddp_spawn"
        use_ddp_cpu_spawn == use_ddp(s) /\ on_cpu(s)
        use_tpu_spawn == on_tpu(s) /\ s.distrib_type = "tpu_spawn"
        use_ddp_cpu_torch_elastic == use_ddp_cpu_spawn /\ e.is_using_torchelastic
        use_ddp_cpu_kubeflow == use_ddp_cpu_spawn /\ e.is_using_kubeflow
        use_ddp_cpu_slurm == use_ddp_cpu_spawn /\ s.is_slurm_managing_tasks
        use_ddp_sharded == s.distrib_type = "ddp_sharded"
        use_ddp_sharded_spawn == s.distrib_type = "ddp_sharded_spawn"
        use_ddp_fully_sharded == s.distrib_type = "ddp_fully_sharded"
    IN  IF use_tpu_spawn THEN "TPUSpawnPlugin"
        ELSE IF use_ddp_sharded THEN "DDPShardedPlugin"
        ELSE IF use_ddp_sharded_spawn THEN "DDPSpawnShardedPlugin"
        ELSE IF \/ use_ddp_cpu_slurm \/ use_slurm_ddp \/ use_ddp_cpu_torch_elastic
                \/ use_torchelastic_ddp \/ use_kubeflow_ddp \/ use_ddp_cpu_kubeflow
             THEN "DDPPlugin"
        ELSE IF use_ddp_spawn \/ use_ddp_cpu_spawn THEN "DDPSpawnPlugin"
        ELSE IF use_ddp_fully_sharded THEN "DDPFullyShardedPlugin"
        ELSE "DDPPlugin"

\* cls(parallel_devices=self.parallel_devices, cluster_environment=env)
NewWith(s, cls, devs, env) ==
    IF DevicesRaised(devs) THEN Ret(Raise(s, devs.kind), 0)
    ELSE New(s, Strategy(cls, devs, env, NoDevices))

NewParallel(s, e, cls, env) == NewWith(s, cls, parallel_devices(s, e), env)

\* Lines 489-490: the single device.
SingleDevice(s, e) ==
    IF on_gpu(s, e) THEN Devices("cuda", <<s.parallel_device_ids[1]>>)
    ELSE Devices("cpu", <<0>>)

\* Lines 436-438: the DeepSpeed plugin selects its cluster environment itself.
NewDeepSpeed(r, e) == NewParallel(r.s, e, "DeepSpeedPlugin", r.v)

\* Lines 426-491: the class by the distributed type, and the object of that class.
SelectByType(s, e) ==
    IF IsAccelerator(s.distributed_backend) /\ e.acc_training_type_plugin # 0
    THEN Ret(s, e.acc_training_type_plugin)
    ELSE IF use_ddp2(s) THEN NewParallel(s, e, "DDP2Plugin", s.cluster_environment)
    ELSE IF use_ddp(s) /\ use_deepspeed(s)
    THEN NewDeepSpeed(select_cluster_environment(s, e), e)
    ELSE IF use_ddp(s) THEN NewParallel(s, e, DdpPluginCls(s, e), s.cluster_environment)
    ELSE IF use_dp(s) THEN NewParallel(s, e, "DataParallelPlugin", NoObj)
    ELSE IF use_horovod(s) THEN NewParallel(s, e, "HorovodPlugin", NoObj)
    ELSE IF on_tpu(s) /\ s.tpu_cores.kind = "list"
    THEN New(s, Strategy("SingleTPUPlugin", NoDevices, NoObj,
                         Devices("xla", <<s.tpu_cores.n>>)))
    ELSE IF on_ipu(s) THEN NewParallel(s, e, "IPUPlugin", NoObj)
    ELSE New(s, Strategy("SingleDevicePlugin", NoDevices, NoObj, SingleDevice(s, e)))

select_training_type_plugin(s, e) ==
    SelectByType([s EXCEPT !.n_select_training_type = @ + 1], e)

\* Lines 495-498.
SetDevices(s, id, devs) ==
    IF DevicesRaised(devs) THEN Raise(s, devs.kind)
    ELSE [s EXCEPT !.strategies[id].parallel_devices = devs,
                   !.strategies[id].num_processes =
                       IF @ = AbsentInt THEN @ ELSE Len(devs.ids)]

ResolveDevices(s, e, id) ==
    IF s.strategies[id].parallel_devices.kind # "None" THEN s
    ELSE SetDevices(s, id, parallel_devices(s, e))

\* Lines 500-501.
SetEnvironment(r, id) == [r.s EXCEPT !.strategies[id].cluster_environment = r.v]

ResolveEnvironment(s, e, id) ==
    IF ~Ok(s) \/ s.strategies[id].cluster_environment # NoObj THEN s
    ELSE SetEnvironment(select_cluster_environment(s, e), id)

\* As if the settings that a strategy holds were kept.
ResolveTrainerSettingsKeeps(s, id) == s

\* Lines 503-509.
ResolveTrainerSettings(s, id) ==
    IF ~Ok(s) THEN s
    ELSE [s EXCEPT !.strategies[id].num_nodes = IF @ = AbsentInt THEN @ ELSE s.num_nodes,
                   !.strategies[id].sync_batchnorm =
                       IF @ = AbsentInt THEN @ ELSE s.sync_batchnorm]

resolve_training_type_plugin(s, e, id) ==
    Ret(ResolveTrainerSettings(
          ResolveEnvironment(
            ResolveDevices([s EXCEPT !.n_resolve_training_type = @ + 1], e, id), e, id), id),
        id)

\* self._training_type_plugin = r, unless the call raised.
TtpAssign(r) == IF Ok(r.s) THEN [r.s EXCEPT !.training_type_plugin = r.v] ELSE r.s

\* Lines 240-241: select, unless a plugin is already there.
TtpSelect(s, e) ==
    IF s.training_type_plugin # 0 THEN s
    ELSE TtpAssign(select_training_type_plugin(s, e))

\* Line 243.
TtpResolved(s) == IF Ok(s) THEN [s EXCEPT !.training_type_plugin_resolved = TRUE] ELSE s

\* Lines 242-243: resolve, and remember that it is done.
TtpResolve(s, e) ==
    IF ~Ok(s) THEN s
    ELSE TtpResolved(TtpAssign(resolve_training_type_plugin(s, e, s.training_type_plugin)))

\* Line 245.
TtpReturn(s) == Ret(s, s.training_type_plugin)

\* The property training_type_plugin, read by one caller without interruption.
training_type_plugin(s, e) ==
    IF s.training_type_plugin_resolved THEN TtpReturn(s)
    ELSE TtpReturn(TtpResolve(TtpSelect(s, e), e))

-----------------------------------------------------------------------------
(* The precision plugin.                                                   *)

\* Allocates an object that has no fields of its own in the model.
NewObj(s, cls) == Ret([s EXCEPT !.next_id = @ + 1], Obj(cls, s.next_id))

\* AMPType.from_str
AmpTypeFromStr(a) == IF a \in {"native", "apex"} THEN a ELSE None

\* isinstance(r, classes), for the plugin r that a read of the property gave.
IsInstance(r, classes) ==
    Ret(r.s, Ok(r.s) /\ r.v # 0 /\ r.s.strategies[r.v].cls \in classes)

\* isinstance(self.training_type_plugin, (DDPShardedPlugin, DDPSpawnShardedPlugin))
is_sharded_training_type(s, e) ==
    IsInstance(training_type_plugin(s, e), {"DDPShardedPlugin", "DDPSpawnShardedPlugin"})

\* isinstance(self.training_type_plugin, DDPFullyShardedPlugin)
is_fully_sharded_training_type(s, e) ==
    IsInstance(training_type_plugin(s, e), {"DDPFullyShardedPlugin"})

\* Lines 415-421, the plugin being known not to be sharded.
ApexNotSharded(fs) ==
    IF ~Ok(fs.s) THEN Ret(fs.s, NoObj)
    ELSE IF fs.v THEN Ret(Raise(fs.s, "ShardedWithApex"), NoObj)
    ELSE NewObj(fs.s, "ApexMixedPrecisionPlugin")

\* As if Apex were allowed with a sharded plugin.
ApexShardedAllowed(sh, e) ==
    IF ~Ok(sh.s) THEN Ret(sh.s, NoObj)
    ELSE NewObj(sh.s, "ApexMixedPrecisionPlugin")

\* Lines 415-421.
ApexSharded(sh, e) ==
    IF ~Ok(sh.s) THEN Ret(sh.s, NoObj)
    ELSE IF sh.v THEN Ret(Raise(sh.s, "ShardedWithApex"), NoObj)
    ELSE ApexNotSharded(is_fully_sharded_training_type(sh.s, e))

\* Lines 409-423.
PrecisionApex(s, e) ==
    IF s.amp_type # "apex" THEN Ret(Raise(s, "NotImplementedError"), NoObj)
    ELSE IF ~e.apex_available THEN Ret(Raise(s, "ApexNotInstalled"), NoObj)
    ELSE ApexSharded(is_sharded_training_type(s, e), e)

\* Lines 405-407.
NativeNotSharded(fs) ==
    IF ~Ok(fs.s) THEN Ret(fs.s, NoObj)
    ELSE IF fs.v THEN NewObj(fs.s, "FullyShardedNativeMixedPrecisionPlugin")
    ELSE NewObj(fs.s, "NativeMixedPrecisionPlugin")

\* As if the sharded plugins had no precision plugin of their own.
NativeShardedPlain(sh, e) ==
    IF ~Ok(sh.s) THEN Ret(sh.s, NoObj)
    ELSE NewObj(sh.s, "NativeMixedPrecisionPlugin")

\* Lines 403-407.
NativeSharded(sh, e) ==
    IF ~Ok(sh.s) THEN Ret(sh.s, NoObj)
    ELSE IF sh.v THEN NewObj(sh.s, "ShardedNativeMixedPrecisionPlugin")
    ELSE NativeNotSharded(is_fully_sharded_training_type(sh.s, e))

\* As if native AMP were not refused on the CPU.
PrecisionNativeAnyDevice(s, e) ==
    IF s.amp_type # "native" THEN PrecisionApex(s, e)
    ELSE IF ~e.native_amp_available
    THEN IF e.apex_available
         THEN PrecisionApex([Warn(s, "NativeAmpFallbackApex") EXCEPT !.amp_type = "apex"], e)
         ELSE Ret(Raise(s, "NativeAmpUnavailable"), NoObj)
    ELSE NativeSharded(is_sharded_training_type(s, e), e)

\* Lines 387-407.
PrecisionNative(s, e) ==
    IF s.amp_type # "native" THEN PrecisionApex(s, e)
    ELSE IF on_cpu(s) THEN Ret(Raise(s, "NativeAmpOnCpu"), NoObj)
    ELSE IF ~e.native_amp_available
    THEN IF e.apex_available
         THEN PrecisionApex([Warn(s, "NativeAmpFallbackApex") EXCEPT !.amp_type = "apex"], e)
         ELSE Ret(Raise(s, "NativeAmpUnavailable"), NoObj)
    ELSE NativeSharded(is_sharded_training_type(s, e), e)

\* Lines 373-423, the amp type being set.
PrecisionByDevice(s, e) ==
    IF on_ipu(s) THEN NewObj(s, "IPUPrecisionPlugin")
    ELSE IF \/ s.distrib_type = "deepspeed"
            \/ /\ s.training_type_plugin # 0
               /\ s.strategies[s.training_type_plugin].cls = "DeepSpeedPlugin"
    THEN NewObj(s, "DeepSpeedPrecisionPlugin")
    ELSE IF s.precision = 32 THEN NewObj(s, "PrecisionPlugin")
    ELSE IF s.precision = 64 THEN NewObj(s, "DoublePrecisionPlugin")
    ELSE IF s.precision = 16
    THEN IF on_tpu(s) THEN NewObj(s, "TPUHalfPrecisionPlugin")
         ELSE PrecisionNative(s, e)
    ELSE Ret(Raise(s, "NotImplementedError"), NoObj)

select_precision_plugin(s, e) ==
    IF s.amp_type = None
    THEN Ret(Raise([s EXCEPT !.n_select_precision = @ + 1], "AttributeError"), NoObj)
    ELSE PrecisionByDevice([s EXCEPT !.n_select_precision = @ + 1,
                                     !.amp_type = AmpTypeFromStr(@)], e)

\* self._precision_plugin = r, unless the call raised.
PrecisionAssign(r) ==
    IF Ok(r.s) THEN Ret([r.s EXCEPT !.precision_plugin = r.v], r.v) ELSE r

\* The property precision_plugin, read by one caller without interruption.
precision_plugin(s, e) ==
    IF s.precision_plugin # NoObj THEN Ret(s, s.precision_plugin)
    ELSE PrecisionAssign(select_precision_plugin(s, e))

-----------------------------------------------------------------------------
(* handle_given_plugins                                                    *)

\* Lines 180-188: a registered name gives the training-type plugin, once.
HgpRegistered(st, plug) ==
    IF ~(plug.kind = "str" /\ plug.name \in TrainingTypePluginsRegistry) THEN st
    ELSE IF st.training_type # 0
    THEN [st EXCEPT !.s = Raise(@, "DuplicateTrainingTypePlugin")]
    ELSE [st EXCEPT !.s = New(@, Strategy(RegistryPluginCls(plug.name),
                                          NoDevices, NoObj, NoDevices)).s,
                    !.training_type = Len(st.s.strategies) + 1]

\* As if a later hint of a category replaced the earlier one.
HgpClassifyLastWins(st, e, plug) ==
    IF ~Ok(st.s) THEN st
    ELSE IF plug.kind = "str"
    THEN [st EXCEPT !.s = set_distributed_mode([@ EXCEPT !.distrib_type = None], e, plug.name)]
    ELSE IF plug.kind = "training_type" THEN [st EXCEPT !.training_type = plug.id]
    ELSE IF plug.kind = "precision" THEN [st EXCEPT !.precision = Obj(plug.name, plug.id)]
    ELSE IF plug.kind = "cluster_environment"
    THEN [st EXCEPT !.cluster_environment = Obj(plug.name, plug.id)]
    ELSE [st EXCEPT !.s = Raise(@, "InvalidPlugin")]

\* As if a hint of no plugin type were skipped.
HgpClassifySkipsUnknown(st, e, plug) ==
    IF ~Ok(st.s) THEN st
    ELSE IF plug.kind = "str"
    THEN [st EXCEPT !.s = set_distributed_mode([@ EXCEPT !.distrib_type = None], e, plug.name)]
    ELSE IF plug.kind = "training_type"
    THEN IF st.training_type = 0 THEN [st EXCEPT !.training_type = plug.id]
         ELSE [st EXCEPT !.s = Raise(@, "DuplicateTrainingTypePlugin")]
    ELSE IF plug.kind = "precision"
    THEN IF st.precision = NoObj THEN [st EXCEPT !.precision = Obj(plug.name, plug.id)]
         ELSE [st EXCEPT !.s = Raise(@, "DuplicatePrecisionPlugin")]
    ELSE IF plug.kind = "cluster_environment"
    THEN IF st.cluster_environment = NoObj
         THEN [st EXCEPT !.cluster_environment = Obj(plug.name, plug.id)]
         ELSE [st EXCEPT !.s = Raise(@, "DuplicateClusterEnvironment")]
    ELSE st

\* Lines 189-223: the hint by its type.
HgpClassify(st, e, plug) ==
    IF ~Ok(st.s) THEN st
    ELSE IF plug.kind = "str"
    THEN [st EXCEPT !.s = set_distributed_mode([@ EXCEPT !.distrib_type = None], e, plug.name)]
    ELSE IF plug.kind = "training_type"
    THEN IF st.training_type = 0 THEN [st EXCEPT !.training_type = plug.id]
         ELSE [st EXCEPT !.s = Raise(@, "DuplicateTrainingTypePlugin")]
    ELSE IF plug.kind = "precision"
    THEN IF st.precision = NoObj THEN [st EXCEPT !.precision = Obj(plug.name, plug.id)]
         ELSE [st EXCEPT !.s = Raise(@, "DuplicatePrecisionPlugin")]
    ELSE IF plug.kind = "cluster_environment"
    THEN IF st.cluster_environment = NoObj
         THEN [st EXCEPT !.cluster_environment = Obj(plug.name, plug.id)]
         ELSE [st EXCEPT !.s = Raise(@, "DuplicateClusterEnvironment")]
    ELSE [st EXCEPT !.s = Raise(@, "InvalidPlugin")]

RECURSIVE HgpLoop(_, _, _)
\* Lines 179-223: the loop, from the i-th hint on, until one raises.
HgpLoop(st, e, i) ==
    IF i > Len(st.s.plugins) \/ ~Ok(st.s) THEN st
    ELSE HgpLoop(HgpClassify(HgpRegistered(st, st.s.plugins[i]), e, st.s.plugins[i]), e, i + 1)

\* Lines 225-227.
\* Line 227, no cluster environment being among the hints.
HgpSelected(r) == [r.s EXCEPT !.cluster_environment = r.v]

HgpAssign(st, e) ==
    IF ~Ok(st.s) THEN st.s
    ELSE IF st.cluster_environment # NoObj
    THEN [st.s EXCEPT !.training_type_plugin = st.training_type,
                      !.precision_plugin = st.precision,
                      !.cluster_environment = st.cluster_environment]
    ELSE HgpSelected(select_cluster_environment(
             [st.s EXCEPT !.training_type_plugin = st.training_type,
                          !.precision_plugin = st.precision], e))

handle_given_plugins(s, e) ==
    HgpAssign(HgpLoop([s |-> s, training_type |-> 0, precision |-> NoObj,
                       cluster_environment |-> NoObj], e, 1), e)

-----------------------------------------------------------------------------
(* select_accelerator and the constructor.                                 *)

NoAccelerator == [cls |-> "None", id |-> 0, training_type_plugin |-> 0, precision_plugin |-> NoObj]

\* The Accelerator instance passed as `distributed_backend`, as the user made it.
CustomAccelerator(e) ==
    [cls |-> "CustomAccelerator", id |-> 1,
     training_type_plugin |-> e.acc_training_type_plugin, precision_plugin |-> NoObj]

\* Lines 524-531.
AcceleratorCls(s, e) ==
    IF on_gpu(s, e) THEN "GPUAccelerator"
    ELSE IF on_tpu(s) THEN "TPUAccelerator"
    ELSE IF on_ipu(s) THEN "IPUAccelerator"
    ELSE "CPUAccelerator"

\* Lines 534-537: acc_cls(training_type_plugin=t, precision_plugin=p)
Assemble(cls, t, p) ==
    IF ~Ok(p.s) THEN p.s
    ELSE [p.s EXCEPT !.accelerator =
              [cls |-> cls, id |-> p.s.next_id,
               training_type_plugin |-> t.v, precision_plugin |-> p.v],
                     !.next_id = @ + 1]

\* Lines 532-537: the training type plugin first, then the precision plugin.
AssembleAfter(cls, t, e) ==
    IF ~Ok(t.s) THEN t.s ELSE Assemble(cls, t, precision_plugin(t.s, e))

select_accelerator(s, e) ==
    IF IsAccelerator(s.distributed_backend)
    THEN IF s.precision_plugin # NoObj \/ s.training_type_plugin # 0
         THEN [Warn(s, "PluginsIgnored") EXCEPT !.accelerator = CustomAccelerator(e)]
         ELSE [s EXCEPT !.accelerator = CustomAccelerator(e)]
    ELSE AssembleAfter(AcceleratorCls(s, e), training_type_plugin(s, e), e)

\* Lines 103-140: the connector before the first resolution.
NewConnector(e) ==
    [device_type                   |-> "CPU",
     distrib_type                  |-> None,
     num_processes                 |-> e.num_processes,
     tpu_cores                     |-> e.tpu_cores,
     ipus                          |-> e.ipus,
     distributed_backend           |-> e.distributed_backend,
     num_nodes                     |-> e.num_nodes,
     sync_batchnorm                |-> e.sync_batchnorm,
     precision                     |-> e.precision,
     amp_type                      |-> e.amp_type,
     is_slurm_managing_tasks       |-> FALSE,
     precision_plugin              |-> NoObj,
     training_type_plugin          |-> 0,
     training_type_plugin_resolved |-> FALSE,
     cluster_environment           |-> NoObj,
     plugins                       |-> e.plugins,
     parallel_device_ids           |-> IF e.gpus = 0 THEN NoneIds ELSE Range(e.gpus),
     accelerator                   |-> NoAccelerator,
     strategies                    |-> e.strategies,
     next_id                       |-> 100,
     n_select_training_type        |-> 0,
     n_resolve_training_type       |-> 0,
     n_select_precision            |-> 0,
     warns                         |-> {},
     err                           |-> NoErr]

\* Lines 150-152: override dist backend when using tpus.
Finish(s) == IF on_tpu(s) THEN [s EXCEPT !.distributed_backend = "tpu"] ELSE s

-----------------------------------------------------------------------------
(* The constructor as one function of its inputs: lines 142-152, each step  *)
(* run unless the one before it raised.                                     *)

\* Lines 150-152.
ThenFinish(s) == IF Ok(s) THEN Finish(s) ELSE s

\* Lines 147-148.
ThenSelectAccelerator(s, e) ==
    IF Ok(s)
    THEN ThenFinish(select_accelerator([s EXCEPT !.training_type_plugin_resolved = FALSE], e))
    ELSE s

\* Line 145.
ThenHandleGivenPlugins(s, e) ==
    IF Ok(s) THEN ThenSelectAccelerator(handle_given_plugins(s, e), e) ELSE s

\* Line 143.
ThenConfigureSlurmDdp(s, e) ==
    IF Ok(s) THEN ThenHandleGivenPlugins(configure_slurm_ddp(s, e), e) ELSE s

\* Line 142 and what follows it.
Construct(e) == ThenConfigureSlurmDdp(set_distributed_mode(NewConnector(e), e, None), e)

-----------------------------------------------------------------------------
(* The inputs of the model.                                                *)

\* The most GPUs requested.
MaxGpus == 2
\* The most reads of a property after construction.
MaxReads == 2
\* The longest list of plugin hints, where the hints themselves are what varies.
MaxHints == 3
\* The largest SLURM_NTASKS.
MaxTasks == 4
\* The most nodes.
MaxNodes == 2
\* The most processes asked for.
MaxProcs == 2

\* The training-type plugins a user has constructed, with no arguments.
UserStrategies ==
    << Strategy("DDPPlugin", NoDevices, NoObj, NoDevices),
       Strategy("DDPShardedPlugin", NoDevices, NoObj, NoDevices) >>

TrainingTypeHint(id) == ObjHint("training_type", UserStrategies[id].cls, id)

PrecisionHint(id) == ObjHint("precision", "PrecisionPlugin", id)

ClusterEnvironmentHint(id) == ObjHint("cluster_environment", "LightningEnvironment", id)

InvalidHint == ObjHint("other", "object", 31)

SeqsUpTo(S, n) == UNION {[1..k -> S] : k \in 0..n}

\* One construction with every argument at the Trainer's default.
Defaults ==
    [num_processes |-> 1, tpu_cores |-> TpuNone, ipus |-> NoneInt,
     distributed_backend |-> None, gpus |-> 0, num_nodes |-> 1, sync_batchnorm |-> 0,
     precision |-> 32, amp_type |-> "native", plugins |-> <<>>,
     cuda_available |-> TRUE, horovodrun |-> FALSE, horovod_available |-> TRUE,
     hvd_local_size |-> 2, cpu_count |-> 2, is_interactive |-> FALSE,
     slurm_ntasks |-> NoneInt, slurm_job_name |-> None, fake_slurm |-> NoneInt,
     is_using_torchelastic |-> FALSE, is_using_kubeflow |-> FALSE,
     in_ddp_subprocess |-> FALSE, native_amp_available |-> TRUE, apex_available |-> FALSE,
     strategies |-> UserStrategies, acc_training_type_plugin |-> 0]

\* GPUs can only be requested where CUDA sees some.
Possible(e) == e.gpus > 0 => e.cuda_available

Backends ==
    {None, "dp", "ddp", "ddp_spawn", "ddp2", "ddp_cpu", "horovod", "tpu", "ipu",
     "ddp_sharded", "deepspeed", "foo", AcceleratorObj}

\* Reads of the properties: which accelerator, plugins and devices there are.
InputsReads ==
    { [Defaults EXCEPT !.distributed_backend = x[1], !.gpus = x[2], !.tpu_cores = x[3],
                       !.plugins = x[4], !.acc_training_type_plugin = x[5],
                       !.precision = x[6], !.num_nodes = x[7]] :
      x \in {None, "ddp", "ddp_sharded", AcceleratorObj} \X {0, MaxGpus}
            \X {TpuNone, TpuInt(8), TpuList(5)}
            \X SeqsUpTo({TrainingTypeHint(1), PrecisionHint(11), StrHint("ddp_spawn")}, 1)
            \X {0, 2} \X {16, 32} \X {1, 2} }

-----------------------------------------------------------------------------
(* The constructor, step by step, and the reads that follow it.            *)

InitWith(inputs) ==
    /\ inp \in {e \in inputs : Possible(e)}
    /\ conn = NewConnector(inp)
    /\ pc = "set_distributed_mode"
    /\ reads = <<>>
    /\ thr = <<>>

\* The next step of the constructor, unless this one raised.
Step(next) ==
    /\ pc' = IF Ok(conn') THEN next ELSE pc
    /\ UNCHANGED <<inp, reads, thr>>

\* Line 142.
SetDistributedMode ==
    /\ pc = "set_distributed_mode" /\ Ok(conn)
    /\ conn' = set_distributed_mode(conn, inp, None)
    /\ Step("configure_slurm_ddp")

\* Line 143.
ConfigureSlurmDdp ==
    /\ pc = "configure_slurm_ddp" /\ Ok(conn)
    /\ conn' = configure_slurm_ddp(conn, inp)
    /\ Step("handle_given_plugins")

\* Line 145.
HandleGivenPlugins ==
    /\ pc = "handle_given_plugins" /\ Ok(conn)
    /\ conn' = handle_given_plugins(conn, inp)
    /\ Step("select_accelerator")

\* Lines 147-148.
SelectAccelerator ==
    /\ pc = "select_accelerator" /\ Ok(conn)
    /\ conn' = select_accelerator([conn EXCEPT !.training_type_plugin_resolved = FALSE], inp)
    /\ Step("finish")

\* Lines 150-171.
FinishInit ==
    /\ pc = "finish" /\ Ok(conn)
    /\ conn' = Finish(conn)
    /\ Step("done")

\* What a read gave its caller: the object, or the exception.
ReadResult(prop, r) ==
    [prop |-> prop, err |-> r.s.err, obj |-> IF Ok(r.s) THEN r.v ELSE NoObj]

\* The caller has the exception; the connector lives on.
Caught(s) == [s EXCEPT !.err = NoErr]

\* The training-type plugin that a read gave, as class and identity.
AsObj(r) == Ret(r.s, IF Ok(r.s) THEN Obj(r.s.strategies[r.v].cls, r.v) ELSE NoObj)

\* A caller reads the property and keeps what it gets.
Read(prop, r) ==
    /\ conn' = Caught(r.s)
    /\ reads' = Append(reads, ReadResult(prop, r))
    /\ UNCHANGED <<inp, pc, thr>>

ReadTrainingTypePlugin ==
    /\ pc = "done" /\ Len(reads) < MaxReads
    /\ Read("training_type_plugin", AsObj(training_type_plugin(conn, inp)))

ReadPrecisionPlugin ==
    /\ pc = "done" /\ Len(reads) < MaxReads
    /\ Read("precision_plugin", precision_plugin(conn, inp))

Next ==
    \/ SetDistributedMode
    \/ ConfigureSlurmDdp
    \/ HandleGivenPlugins
    \/ SelectAccelerator
    \/ FinishInit
    \/ ReadTrainingTypePlugin
    \/ ReadPrecisionPlugin

Init == InitWith(InputsReads)

Spec == Init /\ [][Next]_vars

\* The constructor alone.
NextInit ==
    \/ SetDistributedMode
    \/ ConfigureSlurmDdp
    \/ HandleGivenPlugins
    \/ SelectAccelerator
    \/ FinishInit

\* Hints of every kind, in every order.
Hints ==
    {StrHint("ddp_find_unused_parameters_false"), StrHint("ddp_sharded"),
     TrainingTypeHint(1), TrainingTypeHint(2), PrecisionHint(11), PrecisionHint(12),
     ClusterEnvironmentHint(21), ClusterEnvironmentHint(22), InvalidHint}

InputsPlugins ==
    { [Defaults EXCEPT !.distributed_backend = x[1], !.gpus = x[2],
                       !.is_interactive = x[3], !.plugins = x[4]] :
      x \in {None, "ddp", AcceleratorObj} \X {0, MaxGpus} \X BOOLEAN
            \X SeqsUpTo(Hints, MaxHints) }

SpecPlugins == InitWith(InputsPlugins) /\ [][NextInit]_vars

\* Backends, devices, counts and launchers; at most one hint.
InputsMode ==
    { [Defaults EXCEPT !.distributed_backend = x[1], !.gpus = x[2], !.num_nodes = x[3],
                       !.num_processes = x[4], !.tpu_cores = x[5], !.ipus = x[6],
                       !.horovodrun = x[7], !.horovod_available = x[8],
                       !.is_interactive = x[9], !.plugins = x[10]] :
      x \in Backends \X (0..MaxGpus) \X (1..MaxNodes) \X ({NoneInt} \cup 1..MaxProcs)
            \X {TpuNone, TpuInt(8), TpuList(5)} \X {NoneInt, 4}
            \X BOOLEAN \X BOOLEAN \X BOOLEAN
            \X {<<>>, <<StrHint("ddp_cpu")>>, <<StrHint("ddp_find_unused_parameters_false")>>,
                <<TrainingTypeHint(1)>>, <<PrecisionHint(11)>>} }

SpecMode == InitWith(InputsMode) /\ [][NextInit]_vars

\* The scheduler's variables, and the resolutions they meet.
InputsSlurm ==
    { [Defaults EXCEPT !.slurm_ntasks = x[1], !.slurm_job_name = x[2], !.fake_slurm = x[3],
                       !.distributed_backend = x[4], !.gpus = x[5], !.num_nodes = x[6],
                       !.num_processes = x[7], !.plugins = x[8]] :
      x \in ({NoneInt} \cup 0..MaxTasks) \X {None, "bash", "train"} \X {NoneInt, 0, 1}
            \X {None, "dp", "ddp", "ddp2", "ddp_cpu", "horovod", AcceleratorObj}
            \X (0..MaxGpus) \X (1..MaxNodes) \X (1..MaxProcs)
            \X {<<>>, <<StrHint("ddp_cpu")>>} }

SpecSlurm == InitWith(InputsSlurm) /\ [][NextInit]_vars

\* Precisions and AMP backends, and the devices and plugins they meet.
InputsPrecision ==
    { [Defaults EXCEPT !.distributed_backend = x[1], !.gpus = x[2], !.precision = x[3],
                       !.amp_type = x[4], !.native_amp_available = x[5],
                       !.apex_available = x[6], !.tpu_cores = x[7], !.ipus = x[8],
                       !.plugins = x[9], !.is_using_torchelastic = x[10]] :
      x \in {None, "ddp", "ddp_spawn", "ddp_sharded", "ddp_sharded_spawn",
             "ddp_fully_sharded", "deepspeed", "ddp_cpu", AcceleratorObj}
            \X {0, MaxGpus} \X {16, 32} \X {"native", "apex"} \X BOOLEAN \X BOOLEAN
            \X {TpuNone, TpuInt(8)} \X {NoneInt, 4}
            \X {<<>>, <<TrainingTypeHint(1)>>, <<TrainingTypeHint(2)>>, <<PrecisionHint(11)>>}
            \X BOOLEAN }

SpecPrecision == InitWith(InputsPrecision) /\ [][Next]_vars

\* Backends that need GPUs or a launcher, and string hints that name backends.
InputsGuard ==
    { [Defaults EXCEPT !.distributed_backend = x[1], !.gpus = x[2], !.num_nodes = x[3],
                       !.num_processes = x[4], !.tpu_cores = x[5],
                       !.horovodrun = x[6], !.is_interactive = x[7], !.plugins = x[8]] :
      x \in {None, "dp", "ddp", "ddp_spawn", "ddp2", "ddp_cpu", "horovod", AcceleratorObj}
            \X (0..MaxGpus) \X (1..MaxNodes) \X ({NoneInt} \cup 1..MaxProcs)
            \X {TpuNone, TpuInt(8)} \X BOOLEAN \X BOOLEAN
            \X {<<>>, <<StrHint("dp")>>, <<StrHint("ddp2")>>, <<StrHint("ddp")>>,
                <<StrHint("ddp_cpu")>>, <<StrHint("horovod")>>,
                <<StrHint("ddp_find_unused_parameters_false")>>,
                <<TrainingTypeHint(1)>>, <<StrHint("ddp_spawn"), StrHint("dp")>>} }

SpecGuard == InitWith(InputsGuard) /\ [][NextInit]_vars

\* Schedulers and launchers, and the strategies and environments they meet.
InputsCluster ==
    { [Defaults EXCEPT !.distributed_backend = x[1], !.gpus = x[2], !.tpu_cores = x[3],
                       !.slurm_ntasks = x[4], !.slurm_job_name = "train",
                       !.is_using_torchelastic = x[5], !.is_using_kubeflow = x[6],
                       !.in_ddp_subprocess = x[7], !.plugins = x[8],
                       !.num_processes = x[9]] :
      x \in {None, "ddp", "ddp_spawn", "ddp_sharded", "ddp_sharded_spawn",
             "ddp_fully_sharded", "ddp_cpu", "deepspeed", "ddp2", "tpu_spawn",
             AcceleratorObj}
            \X {0, MaxGpus} \X {TpuNone, TpuInt(8)} \X {NoneInt, 1, MaxGpus}
            \X BOOLEAN \X BOOLEAN \X BOOLEAN
            \X {<<>>, <<ClusterEnvironmentHint(21)>>, <<TrainingTypeHint(1)>>,
                <<TrainingTypeHint(1), ClusterEnvironmentHint(22)>>}
            \X {1, MaxProcs} }

SpecCluster == InitWith(InputsCluster) /\ [][Next]_vars

\* The names that a backend or a string hint can give.
BackendNames == {"dp", "ddp", "ddp_spawn", "ddp2", "ddp_cpu", "horovod"}

\* A backend, and at most one string hint that names another.
InputsReentry ==
    { [Defaults EXCEPT !.distributed_backend = x[1], !.gpus = x[2], !.num_nodes = x[3],
                       !.num_processes = x[4], !.tpu_cores = x[5],
                       !.slurm_ntasks = x[6], !.slurm_job_name = "train",
                       !.plugins = x[7]] :
      x \in (BackendNames \cup {None}) \X (0..MaxGpus) \X (1..MaxNodes)
            \X ({NoneInt} \cup 1..MaxProcs) \X {TpuNone, TpuInt(8)}
            \X {NoneInt, MaxGpus}
            \X ({<<>>} \cup {<<StrHint(n)>> : n \in BackendNames}) }

SpecReentry == InitWith(InputsReentry) /\ [][NextInit]_vars

\* Strategies as a user made them: the first with its devices and its cluster
\* environment set, both with settings of their own.
PresetStrategies ==
    << [Strategy("DDPPlugin", Devices("cuda", <<0>>), Obj("LightningEnvironment", 41),
                 NoDevices) EXCEPT !.num_nodes = MaxNodes + 1, !.sync_batchnorm = 1],
       [Strategy("DDPShardedPlugin", NoDevices, NoObj, NoDevices)
            EXCEPT !.num_nodes = MaxNodes + 1] >>

\* Strategies that arrive unset or preset, as hints or with a custom accelerator.
InputsResolve ==
    { [Defaults EXCEPT !.distributed_backend = x[1], !.gpus = x[2], !.num_nodes = x[3],
                       !.sync_batchnorm = x[4], !.tpu_cores = x[5], !.strategies = x[6],
                       !.plugins = x[7], !.acc_training_type_plugin = x[8]] :
      x \in {None, "ddp", "dp", AcceleratorObj} \X {0, MaxGpus} \X {1, MaxNodes}
            \X {0, 1} \X {TpuNone, TpuInt(8), TpuList(5)}
            \X {UserStrategies, PresetStrategies}
            \X {<<>>, <<TrainingTypeHint(1)>>, <<TrainingTypeHint(2)>>}
            \X {0, 1} }

SpecResolve == InitWith(InputsResolve) /\ [][Next]_vars

-----------------------------------------------------------------------------
(* Threads that read the properties of one connector.  A thread runs the   *)
(* property's body a statement at a time, and another thread may run       *)
(* between two statements; a call is one step, the store of its result the *)
(* next.                                                                   *)

\* The threads that read.
NumThreads == 2

Threads == 1..NumThreads

\* A thread: where it is, and the plugin it holds (by identity, or as an object).
Thread(at, id, obj) == [at |-> at, id |-> id, obj |-> obj]

Idle == Thread("idle", 0, NoObj)

At(t, at) == pc = "done" /\ thr[t].at = at

Goto(t, at) == thr' = [thr EXCEPT ![t].at = at]

\* The thread keeps the plugin that its call returned, or ends with the exception.
Called(t, r, at) ==
    /\ conn' = Caught(r.s)
    /\ thr' = [thr EXCEPT ![t] = IF Ok(r.s) THEN Thread(at, r.v.id, r.v)
                                 ELSE Thread("raised", 0, NoObj)]
    /\ UNCHANGED <<inp, pc, reads>>

\* return self._training_type_plugin
Returned(t, r) ==
    /\ thr' = [thr EXCEPT ![t] = Thread("returned", r.v.id, r.v)]
    /\ reads' = Append(reads, ReadResult("training_type_plugin", r))
    /\ UNCHANGED <<inp, conn, pc>>

\* A thread begins to read training_type_plugin: line 237.
TtpEnter(t) ==
    /\ At(t, "idle")
    /\ Goto(t, IF conn.training_type_plugin_resolved THEN "ttp_return"
               ELSE IF conn.training_type_plugin = 0 THEN "ttp_select"
               ELSE "ttp_resolve")
    /\ UNCHANGED <<inp, conn, pc, reads>>

\* Line 241, the call.
TtpCallSelect(t) ==
    /\ At(t, "ttp_select")
    /\ Called(t, AsObj(select_training_type_plugin(conn, inp)), "ttp_store_selected")

\* Line 241, the store.
TtpStoreSelected(t) ==
    /\ At(t, "ttp_store_selected")
    /\ conn' = [conn EXCEPT !.training_type_plugin = thr[t].id]
    /\ Goto(t, "ttp_resolve")
    /\ UNCHANGED <<inp, pc, reads>>

\* Line 242, the call.
TtpCallResolve(t) ==
    /\ At(t, "ttp_resolve")
    /\ Called(t, AsObj(resolve_training_type_plugin(conn, inp, conn.training_type_plugin)),
              "ttp_store_resolved")

\* Lines 242-243, the stores.
TtpStoreResolved(t) ==
    /\ At(t, "ttp_store_resolved")
    /\ conn' = [conn EXCEPT !.training_type_plugin = thr[t].id,
                            !.training_type_plugin_resolved = TRUE]
    /\ Goto(t, "ttp_return")
    /\ UNCHANGED <<inp, pc, reads>>

\* Lines 239 and 245.
TtpReturned(t) ==
    /\ At(t, "ttp_return")
    /\ Returned(t, AsObj(TtpReturn(conn)))

\* A thread begins to read precision_plugin: line 231.
PrecisionEnter(t) ==
    /\ At(t, "idle")
    /\ Goto(t, IF conn.precision_plugin = NoObj THEN "precision_select"
               ELSE "precision_return")
    /\ UNCHANGED <<inp, conn, pc, reads>>

\* Line 232, the call.
PrecisionCallSelect(t) ==
    /\ At(t, "precision_select")
    /\ Called(t, select_precision_plugin(conn, inp), "precision_store")

\* Line 232, the store.
PrecisionStore(t) ==
    /\ At(t, "precision_store")
    /\ conn' = [conn EXCEPT !.precision_plugin = thr[t].obj]
    /\ Goto(t, "precision_return")
    /\ UNCHANGED <<inp, pc, reads>>

\* Line 233.
PrecisionReturned(t) ==
    /\ At(t, "precision_return")
    /\ thr' = [thr EXCEPT ![t] = Thread("returned", conn.precision_plugin.id,
                                        conn.precision_plugin)]
    /\ reads' = Append(reads, ReadResult("precision_plugin", Ret(conn, conn.precision_plugin)))
    /\ UNCHANGED <<inp, conn, pc>>

\* Connectors whose plugins construction left unresolved, and some it resolved.
InputsThreads ==
    { [Defaults EXCEPT !.distributed_backend = x[1], !.gpus = x[2],
                       !.plugins = x[3], !.acc_training_type_plugin = x[4],
                       !.precision = x[5]] :
      x \in {None, "ddp", AcceleratorObj} \X {0, MaxGpus}
            \X SeqsUpTo({TrainingTypeHint(1), PrecisionHint(11)}, 1)
            \X {0, 2} \X {32, 64} }

InitThreads ==
    /\ inp \in {e \in InputsThreads : Possible(e)}
    /\ conn = NewConnector(inp)
    /\ pc = "set_distributed_mode"
    /\ reads = <<>>
    /\ thr = [t \in Threads |-> Idle]

NextThreads ==
    \/ SetDistributedMode
    \/ ConfigureSlurmDdp
    \/ HandleGivenPlugins
    \/ SelectAccelerator
    \/ FinishInit
    \/ \E t \in Threads :
          \/ TtpEnter(t)
          \/ TtpCallSelect(t)
          \/ TtpStoreSelected(t)
          \/ TtpCallResolve(t)
          \/ TtpStoreResolved(t)
          \/ TtpReturned(t)
          \/ PrecisionEnter(t)
          \/ PrecisionCallSelect(t)
          \/ PrecisionStore(t)
          \/ PrecisionReturned(t)

SpecThreads == InitThreads /\ [][NextThreads]_vars

-----------------------------------------------------------------------------
(* Properties of the reads.                                                *)

ReadsOf(prop) == {i \in 1..Len(reads) : reads[i].prop = prop /\ reads[i].err = NoErr}

SameInstance(prop) == \A i, j \in ReadsOf(prop) : reads[i].obj = reads[j].obj

\* C1: on a constructed connector, every read of training_type_plugin
\* returns the identical strategy instance, and strategy selection and
\* back-fill each run at most once over the connector's life.
C1_ReadsMemoized ==
    pc = "done" =>
        /\ SameInstance("training_type_plugin")
        /\ conn.n_select_training_type <= 1
        /\ conn.n_resolve_training_type <= 1

\* C2: when several threads read training_type_plugin or precision_plugin
\* of one connector, the selection logic of each property runs at most once
\* and every thread obtains the same instance.
C2_ThreadsSelectOnce ==
    /\ conn.n_select_training_type <= 1
    /\ conn.n_select_precision <= 1
    /\ SameInstance("training_type_plugin")
    /\ SameInstance("precision_plugin")

-----------------------------------------------------------------------------
(* Properties of the plugin hints.                                         *)

\* The category that a hint overrides, if any.
Category(h) ==
    IF h.kind = "str"
    THEN IF h.name \in TrainingTypePluginsRegistry THEN "training_type" ELSE "none"
    ELSE IF h.kind = "other" THEN "none" ELSE h.kind

\* The places of a list where a category is sighted again.
SecondSightings(hs) ==
    {j \in 1..Len(hs) : /\ Category(hs[j]) # "none"
                        /\ \E i \in 1..(j - 1) : Category(hs[i]) = Category(hs[j])}

HasConflict(hs) == SecondSightings(hs) # {}

FirstConflict(hs) == CHOOSE j \in SecondSightings(hs) : \A k \in SecondSightings(hs) : j <= k

ConflictError(category) ==
    IF category = "training_type" THEN "DuplicateTrainingTypePlugin"
    ELSE IF category = "precision" THEN "DuplicatePrecisionPlugin"
    ELSE "DuplicateClusterEnvironment"

ConflictErrors ==
    {"DuplicateTrainingTypePlugin", "DuplicatePrecisionPlugin", "DuplicateClusterEnvironment"}

\* A hint before the j-th is of this kind.
EarlierHint(hs, j, kind) == \E k \in 1..(j - 1) : hs[k].kind = kind

\* handle_given_plugins has raised.
HgpRaised == pc = "handle_given_plugins" /\ ~Ok(conn)

\* The constructor is past handle_given_plugins.
HgpPassed == pc \in {"select_accelerator", "finish", "done"}

\* The error that ends the loop on a list with a conflict: the conflict's,
\* unless an earlier hint is of no plugin type, or is a string whose
\* resolution raises.
ConflictOutcome(hs, j, err) ==
    \/ err = ConflictError(Category(hs[j]))
    \/ err = "InvalidPlugin" /\ EarlierHint(hs, j, "other")
    \/ err \notin ConflictErrors \cup {"InvalidPlugin"} /\ EarlierHint(hs, j, "str")

\* C3 (as amended): a hint list with two hints of one category never passes
\* handle_given_plugins and no accelerator is assembled; the loop ends in
\* the conflict error of the category sighted twice first, unless a hint
\* before that second sighting already ended it: one of no plugin type
\* (invalid-plugin error) or a string whose resolution raises.
C3_ConflictIsFatal ==
    HasConflict(inp.plugins) =>
        /\ ~HgpPassed
        /\ conn.accelerator = NoAccelerator
        /\ HgpRaised => ConflictOutcome(inp.plugins, FirstConflict(inp.plugins), conn.err)

\* C3, witness: a registered name and then a plugin object, both training
\* types, have ended the loop in the conflict error.
C3_Witness ==
    /\ HgpRaised
    /\ Len(inp.plugins) = 2
    /\ inp.plugins[1].kind = "str"
    /\ inp.plugins[2].kind = "training_type"
    /\ conn.err = "DuplicateTrainingTypePlugin"

\* C3 (as stated): whenever the list holds two hints of one category,
\* handle_given_plugins ends in a conflict error.
C3_AlwaysConflictError ==
    (HasConflict(inp.plugins) /\ HgpRaised) => conn.err \in ConflictErrors

\* C4: when the backend passed to the constructor is a custom Accelerator,
\* then whatever the plugin hints are, construction never runs strategy or
\* precision selection, and the connector's accelerator is that object.
C4_CustomAcceleratorBypasses ==
    (IsAccelerator(inp.distributed_backend) /\ pc \in {"finish", "done"}) =>
        /\ conn.accelerator = CustomAccelerator(inp)
        /\ conn.n_select_training_type = 0
        /\ conn.n_select_precision = 0

-----------------------------------------------------------------------------
(* Properties of the resolution of the distributed mode.                   *)

\* The constructor's call of set_distributed_mode has returned or raised.
FirstPassReturned == pc # "set_distributed_mode"

FirstPassRaised == pc = "set_distributed_mode" /\ ~Ok(conn)

\* The state is the one that the constructor's call of set_distributed_mode left.
AfterFirstPass == pc = "configure_slurm_ddp"

NoStrHints(e) == \A i \in 1..Len(e.plugins) : e.plugins[i].kind # "str"

RegisteredHint(e) ==
    \E i \in 1..Len(e.plugins) :
        e.plugins[i].kind = "str" /\ e.plugins[i].name \in TrainingTypePluginsRegistry

\* The constructor's call of set_distributed_mode runs to its validation:
\* it returns at once when a registered name is among the hints, and after
\* the backend when that is an Accelerator.
FirstPassValidates(e) ==
    /\ ~IsAccelerator(e.distributed_backend)
    /\ ~RegisteredHint(e)

MultiNodeKinds == DdpFamily \cup {"ddp2"}

\* The checks that come before the validation of the nodes, where they apply.
EarlierCheckFailed(e, err) ==
    \/ /\ err \in {"HorovodNotInstalled", "HorovodExplicitDevices"}
       /\ e.horovodrun \/ e.distributed_backend = "horovod"
    \/ err = "InteractiveIncompatible" /\ e.is_interactive
    \/ err = "ValueError" /\ e.distributed_backend \notin DistributedTypeValues

\* C5 (as amended): with more than one node, a pass of set_distributed_mode
\* that runs to its validation never completes with a kind outside the DDP
\* family (DDP, DDP-spawn, the sharded kinds, DeepSpeed, TPU-spawn) and
\* DDP2; when it raises with such a kind, the error is the multi-node
\* validation error unless an earlier check (Horovod's, the interactive
\* one, the backend's name) has raised.
C5_MultiNodeNeedsDdp ==
    (inp.num_nodes > 1 /\ FirstPassValidates(inp)) =>
        /\ AfterFirstPass => conn.distrib_type \in MultiNodeKinds
        /\ (FirstPassRaised /\ conn.distrib_type \notin MultiNodeKinds) =>
              \/ conn.err = "MultiNodeUnsupported"
              \/ EarlierCheckFailed(inp, conn.err)

\* C5, witness: DP on two nodes has raised the multi-node validation error.
C5_Witness ==
    /\ FirstPassRaised
    /\ inp.num_nodes > 1
    /\ conn.distrib_type = "dp"
    /\ conn.err = "MultiNodeUnsupported"

\* C5 (as stated): with more than one node, no resolution completes with a
\* kind other than DDP or DDP2.
C5_OnlyDdpOrDdp2 ==
    (inp.num_nodes > 1 /\ AfterFirstPass) => conn.distrib_type \in {"ddp", "ddp2"}

NoBackendNoTpuNoHorovodrun(e) ==
    /\ e.distributed_backend = None
    /\ e.tpu_cores = TpuNone
    /\ ~e.horovodrun
    /\ NoStrHints(e)

\* C6 (as amended): with more than one GPU, no backend, no TPU cores, no
\* Horovod launcher in the environment and no string among the plugin
\* hints, resolution does not fail, the kind is DDP-spawn and the warning
\* about several GPUs without a backend is emitted, whatever the IPU count,
\* the node count, the process count and the other hints are.
C6_MultiGpuDefaultsToSpawn ==
    (inp.gpus > 1 /\ NoBackendNoTpuNoHorovodrun(inp)) =>
        /\ ~FirstPassRaised
        /\ FirstPassReturned =>
              /\ conn.distrib_type = "ddp_spawn"
              /\ "MultiGpuNoBackend" \in conn.warns

\* C6, witness: two GPUs on two nodes, with IPUs set and no backend, are
\* resolved to DDP-spawn.
C6_Witness ==
    /\ AfterFirstPass
    /\ inp.gpus > 1 /\ NoBackendNoTpuNoHorovodrun(inp)
    /\ inp.num_nodes > 1 /\ inp.ipus # NoneInt
    /\ conn.distrib_type = "ddp_spawn"
    /\ "MultiGpuNoBackend" \in conn.warns

\* C6 (as stated): with more than one GPU and no backend, the resolved kind
\* is DDP-spawn and the warning is emitted, whatever the other inputs are.
C6_WhateverTheRest ==
    (inp.gpus > 1 /\ inp.distributed_backend = None) =>
        /\ ~FirstPassRaised
        /\ AfterFirstPass =>
              /\ conn.distrib_type = "ddp_spawn"
              /\ "MultiGpuNoBackend" \in conn.warns

SingleProcess(e) ==
    /\ e.gpus = 0
    /\ e.num_nodes <= 1
    /\ e.num_processes # NoneInt /\ e.num_processes <= 1

\* C7 (as amended): with no GPU, at most one node, at most one process, no
\* backend, no TPU cores, no Horovod launcher in the environment and no
\* string among the plugin hints, resolution does not fail, the kind is
\* unset and the device kind is CPU, whatever the IPU count and the other
\* hints are.
C7_SingleProcessIsCpu ==
    (SingleProcess(inp) /\ NoBackendNoTpuNoHorovodrun(inp)) =>
        /\ ~FirstPassRaised
        /\ FirstPassReturned =>
              /\ conn.distrib_type = None
              /\ conn.device_type = "CPU"

\* C7, witness: one process without GPUs, with IPUs set and a plugin
\* object among the hints, is resolved to no kind on the CPU.
C7_Witness ==
    /\ AfterFirstPass
    /\ SingleProcess(inp) /\ NoBackendNoTpuNoHorovodrun(inp)
    /\ inp.ipus # NoneInt /\ inp.plugins # <<>>
    /\ conn.distrib_type = None
    /\ conn.device_type = "CPU"

\* C7 (as stated): with no GPU, at most one node, at most one process and
\* no backend, the kind is unset and the device kind is CPU, whatever the
\* other inputs are.
C7_WhateverTheRest ==
    (SingleProcess(inp) /\ inp.distributed_backend = None) =>
        /\ ~FirstPassRaised
        /\ AfterFirstPass =>
              /\ conn.distrib_type = None
              /\ conn.device_type = "CPU"

\* C8: whenever the backend that set_distributed_mode resolved is "ddp_cpu"
\* and GPUs were requested, the device kind is not GPU, the kind is
\* DDP-spawn, the GPU ids are cleared and the warning that the GPUs will not
\* be used is emitted; both when "ddp_cpu" is the constructor's backend and
\* when it arrives as a hint after the constructor's pass.
C8_DdpCpuIgnoresGpus ==
    (/\ conn.distributed_backend = "ddp_cpu"
     /\ inp.gpus > 0
     /\ Ok(conn)
     /\ \/ AfterFirstPass /\ ~RegisteredHint(inp)
        \/ pc = "select_accelerator") =>
        /\ conn.device_type # "GPU"
        /\ conn.distrib_type = "ddp_spawn"
        /\ conn.parallel_device_ids = NoneIds
        /\ "DdpCpuGpusUnused" \in conn.warns

-----------------------------------------------------------------------------
(* Properties of the scheduler's flag.                                     *)

\* The connector as the constructor's call of set_distributed_mode leaves it.
FirstPass(e) == set_distributed_mode(NewConnector(e), e, None)

\* SLURM_NTASKS is the number of tasks that configure_slurm_ddp expects of
\* the connector: GPUs times nodes, or the processes where that is zero.
TasksMatch(s, e) ==
    /\ Ok(s)
    /\ use_ddp(s) \/ use_ddp2(s)
    /\ e.slurm_ntasks # NoneInt
    /\ e.slurm_ntasks = IF num_gpus(s) * s.num_nodes = 0 THEN s.num_processes
                        ELSE num_gpus(s) * s.num_nodes

JobNamed(e) == e.slurm_job_name \notin {None, "bash"}

\* C9 (as amended): when the constructor's resolution pass ends with a kind
\* of the DDP family or DDP2, the task-count variable equals the resolved
\* GPU count times the node count (or, that product being zero, the process
\* count), and the job-name variable is present and is not "bash", then
\* is_slurm_managing_tasks is true at the end of construction.
C9_MatchingTasksAreManaged ==
    (pc = "done" /\ JobNamed(inp) /\ TasksMatch(FirstPass(inp), inp)) =>
        conn.is_slurm_managing_tasks

\* C9, witness: DDP on GPUs, as many tasks as GPUs times nodes, a job that
\* is not a shell, no override: the flag is true at the end.
C9_Witness ==
    /\ pc = "done"
    /\ inp.slurm_job_name = "train"
    /\ inp.fake_slurm = NoneInt
    /\ inp.gpus > 0
    /\ inp.slurm_ntasks = inp.gpus * inp.num_nodes
    /\ TasksMatch(FirstPass(inp), inp)
    /\ conn.is_slurm_managing_tasks

\* C9 (as stated): when the task-count variable equals GPU count times node
\* count and the job name is present and is not "bash", the flag is true at
\* the end of construction.
C9_TasksEqualGpusTimesNodes ==
    (/\ pc = "done"
     /\ JobNamed(inp)
     /\ inp.slurm_ntasks = inp.gpus * inp.num_nodes) =>
        conn.is_slurm_managing_tasks

\* C10 (as amended): when the job-name variable is "bash" and the test-only
\* variable FAKE_SLURM_MANAGING_TASKS is absent or zero, the flag is false
\* throughout construction and at its end, whatever the task count, the
\* other variables and the inputs are.
C10_ShellJobIsNotManaged ==
    (inp.slurm_job_name = "bash" /\ inp.fake_slurm \in {NoneInt, 0}) =>
        ~conn.is_slurm_managing_tasks

\* C10, witness: a "bash" job whose task count matches ends construction
\* with the flag false.
C10_Witness ==
    /\ pc = "done"
    /\ inp.slurm_job_name = "bash"
    /\ inp.fake_slurm \in {NoneInt, 0}
    /\ TasksMatch(FirstPass(inp), inp)
    /\ ~conn.is_slurm_managing_tasks

\* C10 (as stated): when the job-name variable is "bash", the flag is false
\* at the end of construction, whatever the other variables are.
C10_ShellJobWhateverTheRest ==
    (pc = "done" /\ inp.slurm_job_name = "bash") => ~conn.is_slurm_managing_tasks

-----------------------------------------------------------------------------
(* Properties of the precision plugin.                                     *)

\* The constructor has resolved the mode and the hints, and nothing has raised.
Resolved == pc \in {"select_accelerator", "finish", "done"} /\ Ok(conn)

\* What a selection gives: the class of the plugin, or the exception.
Outcome(r) == IF Ok(r.s) THEN r.v.cls ELSE r.s.err

\* What select_precision_plugin gives on the connector as it is.
PrecisionOutcome == Outcome(select_precision_plugin(conn, inp))

\* The class of the connector's training-type plugin, as a read gives it.
StrategyCls == Outcome(AsObj(training_type_plugin(conn, inp)))

\* Lines 376-377: the DeepSpeed precision plugin is chosen before the precision is looked at.
DeepSpeedChosen(s) ==
    \/ s.distrib_type = "deepspeed"
    \/ s.training_type_plugin # 0 /\ s.strategies[s.training_type_plugin].cls = "DeepSpeedPlugin"

HalfNativeOnCpu(s) == s.precision = 16 /\ s.amp_type = "native" /\ s.device_type = "CPU"

PrecisionReads == {i \in 1..Len(reads) : reads[i].prop = "precision_plugin"}

PrecisionHinted(e) == \E i \in 1..Len(e.plugins) : e.plugins[i].kind = "precision"

\* C11 (as amended): with precision 16, the native backend and DeviceKind
\* CPU, and with neither IPUs nor TPU cores requested and neither the kind
\* nor the strategy DeepSpeed, select_precision_plugin ends in the fatal
\* error that native AMP is not available on the CPU; no read of
\* precision_plugin returns a plugin for that combination unless the hints
\* gave one.
C11_HalfNativeOnCpuFails ==
    (/\ Resolved
     /\ HalfNativeOnCpu(conn)
     /\ ~on_ipu(conn) /\ ~on_tpu(conn) /\ ~DeepSpeedChosen(conn)) =>
        /\ PrecisionOutcome = "NativeAmpOnCpu"
        /\ ~PrecisionHinted(inp) =>
              /\ conn.precision_plugin = NoObj
              /\ \A i \in PrecisionReads : reads[i].err = "NativeAmpOnCpu"

\* C11, witness: a read of precision_plugin has raised the error on a
\* connector with precision 16, the native backend and the CPU.
C11_Witness ==
    /\ pc = "done"
    /\ HalfNativeOnCpu(conn)
    /\ ~on_ipu(conn) /\ ~on_tpu(conn) /\ ~DeepSpeedChosen(conn)
    /\ PrecisionReads # {}
    /\ \A i \in PrecisionReads : reads[i].err = "NativeAmpOnCpu"

\* C11 (as stated): with precision 16, the native backend and DeviceKind
\* CPU, resolving the precision plugin always ends in an error.
C11_AlwaysFails ==
    (Resolved /\ HalfNativeOnCpu(conn)) =>
        PrecisionOutcome \notin {"IPUPrecisionPlugin", "TPUHalfPrecisionPlugin",
                                 "DeepSpeedPrecisionPlugin", "NativeMixedPrecisionPlugin",
                                 "ShardedNativeMixedPrecisionPlugin",
                                 "FullyShardedNativeMixedPrecisionPlugin",
                                 "ApexMixedPrecisionPlugin"}

HalfNativeOnGpu(s, e) ==
    /\ s.precision = 16 /\ s.amp_type = "native"
    /\ s.device_type = "GPU" /\ e.native_amp_available

StrategyHinted(e) ==
    \E i \in 1..Len(e.plugins) : Category(e.plugins[i]) = "training_type"

\* Lines 464-468 on a GPU: a scheduler or launcher makes the plugin plain DDP.
LauncherActive(s, e) ==
    \/ s.is_slurm_managing_tasks
    \/ e.is_using_torchelastic /\ ~e.in_ddp_subprocess
    \/ e.is_using_kubeflow

\* The native half-precision plugin that goes with a distributed type.
NativeVariant(s, e) ==
    IF s.distrib_type \in {"ddp_sharded", "ddp_sharded_spawn"}
    THEN "ShardedNativeMixedPrecisionPlugin"
    ELSE IF s.distrib_type = "ddp_fully_sharded" /\ ~LauncherActive(s, e)
    THEN "FullyShardedNativeMixedPrecisionPlugin"
    ELSE "NativeMixedPrecisionPlugin"

NativeKinds == {"ddp", "ddp_sharded", "ddp_sharded_spawn", "ddp_fully_sharded"}

\* C12 (as amended): with precision 16, the native backend, DeviceKind GPU
\* and native AMP available, with no IPUs requested and no strategy
\* override among the hints, the selected precision plugin is the sharded
\* native variant for the kinds DDP-sharded and DDP-sharded-spawn, the
\* fully-sharded native variant for DDP-fully-sharded unless a scheduler or
\* launcher is active (the strategy is then plain DDP and the plugin the
\* plain native one), and the plain native plugin for DDP; the constructed
\* accelerator holds that plugin unless the hints gave another.
C12_NativeVariantByKind ==
    (/\ Resolved
     /\ HalfNativeOnGpu(conn, inp)
     /\ conn.distrib_type \in NativeKinds
     /\ ~on_ipu(conn) /\ ~StrategyHinted(inp)) =>
        /\ PrecisionOutcome = NativeVariant(conn, inp)
        /\ (pc = "done" /\ ~PrecisionHinted(inp)) =>
              conn.accelerator.precision_plugin.cls = NativeVariant(conn, inp)

\* C12, witness: a construction with the kind DDP-sharded on GPUs has
\* ended with the sharded native plugin in its accelerator.
C12_Witness ==
    /\ pc = "done"
    /\ HalfNativeOnGpu(conn, inp)
    /\ conn.distrib_type = "ddp_sharded"
    /\ ~on_ipu(conn) /\ ~StrategyHinted(inp) /\ ~PrecisionHinted(inp)
    /\ conn.accelerator.precision_plugin.cls = "ShardedNativeMixedPrecisionPlugin"

\* C12 (as stated): with precision 16, the native backend, DeviceKind GPU
\* and native AMP available, the selected precision plugin is the sharded
\* variant for the sharded kinds, the fully-sharded variant for the
\* fully-sharded kind, and the plain one for DDP.
C12_VariantByKindAlone ==
    (/\ Resolved
     /\ HalfNativeOnGpu(conn, inp)
     /\ conn.distrib_type \in NativeKinds) =>
        PrecisionOutcome =
            IF conn.distrib_type \in {"ddp_sharded", "ddp_sharded_spawn"}
            THEN "ShardedNativeMixedPrecisionPlugin"
            ELSE IF conn.distrib_type = "ddp_fully_sharded"
            THEN "FullyShardedNativeMixedPrecisionPlugin"
            ELSE "NativeMixedPrecisionPlugin"

ShardedClasses == {"DDPShardedPlugin", "DDPSpawnShardedPlugin", "DDPFullyShardedPlugin"}

HalfApexSharded(s) ==
    s.precision = 16 /\ s.amp_type = "apex" /\ StrategyCls \in ShardedClasses

\* C13 (as amended): with precision 16, the apex backend and a sharded or
\* fully-sharded strategy, with Apex installed, neither IPUs nor TPU cores
\* requested and the kind not DeepSpeed, precision selection fails with the
\* error that sharded plugins are not supported with Apex.
C13_ApexShardedFails ==
    (/\ Resolved
     /\ HalfApexSharded(conn)
     /\ inp.apex_available
     /\ ~on_ipu(conn) /\ ~on_tpu(conn) /\ ~DeepSpeedChosen(conn)) =>
        PrecisionOutcome = "ShardedWithApex"

\* C13, witness: select_accelerator has raised that error for the kind
\* DDP-sharded with precision 16 and apex.
C13_Witness ==
    /\ pc = "select_accelerator"
    /\ conn.err = "ShardedWithApex"
    /\ conn.precision = 16 /\ conn.amp_type = "apex"
    /\ conn.distrib_type = "ddp_sharded"
    /\ conn.strategies[conn.training_type_plugin].cls = "DDPShardedPlugin"

\* C13 (as stated): with precision 16, the apex backend and a sharded or
\* fully-sharded strategy, precision selection fails with the error that
\* sharded plugins are not supported with Apex.
C13_AlwaysIncompatible ==
    (Resolved /\ HalfApexSharded(conn)) => PrecisionOutcome = "ShardedWithApex"

\* The places of a list that hold a hint of this kind.
HintsOfKind(hs, kind) == {j \in 1..Len(hs) : hs[j].kind = kind}

FirstOfKind(hs, kind) ==
    CHOOSE j \in HintsOfKind(hs, kind) : \A k \in HintsOfKind(hs, kind) : j <= k

LastOfKind(hs, kind) ==
    CHOOSE j \in HintsOfKind(hs, kind) : \A k \in HintsOfKind(hs, kind) : k <= j

\* A conflict is sighted before the j-th hint.
EarlierConflict(hs, j) == \E k \in SecondSightings(hs) : k < j

\* The error that ends the loop on a list whose j-th hint is the first of
\* no plugin type.
InvalidOutcome(hs, j, err) ==
    \/ err = "InvalidPlugin"
    \/ err \in ConflictErrors /\ EarlierConflict(hs, j)
    \/ err \notin ConflictErrors \cup {"InvalidPlugin"} /\ EarlierHint(hs, j, "str")

\* The backend that a string hint names.
NamedBackend(h) ==
    IF h.name \in TrainingTypePluginsRegistry THEN RegistryBackend(h.name) ELSE h.name

Unregistered(h) == h.kind = "str" /\ h.name \notin TrainingTypePluginsRegistry

Constructed == pc = "done"

\* C15: in every state of a completed construction, after the first
\* resolution and every re-entry that string hints cause, the kinds DP and
\* DDP2 imply at least one GPU.
C15_DpAndDdp2HaveGpus ==
    (Constructed /\ conn.distrib_type \in {"dp", "ddp2"}) => num_gpus(conn) >= 1

\* C15, witness: a construction without GPUs that names DP in a string hint
\* has completed, the guard having taken the kind away.
C15_Witness ==
    /\ Constructed
    /\ inp.gpus = 0
    /\ \E i \in 1..Len(inp.plugins) : inp.plugins[i] = StrHint("dp")
    /\ conn.distributed_backend = "dp"
    /\ conn.distrib_type \notin {"dp", "ddp2"}
    /\ "NoGpuFallback" \in conn.warns

\* The class that the priorities give when no environment is hinted.
EnvironmentByPriority(managed, elastic, kubeflow) ==
    IF managed THEN "SLURMEnvironment"
    ELSE IF elastic THEN "TorchElasticEnvironment"
    ELSE IF kubeflow THEN "KubeflowEnvironment"
    ELSE "LightningEnvironment"

\* The environment that the hints and the priorities call for.
IsChosenEnvironment(env, hs, s, e) ==
    IF HintsOfKind(hs, "cluster_environment") # {}
    THEN env = Obj(hs[FirstOfKind(hs, "cluster_environment")].name,
                   hs[FirstOfKind(hs, "cluster_environment")].id)
    ELSE env.cls = EnvironmentByPriority(s.is_slurm_managing_tasks,
                                         e.is_using_torchelastic, e.is_using_kubeflow)

\* The strategy that the accelerator holds has the connector's environment,
\* when the connector made it.
StrategyHasEnvironment(s) ==
    (/\ s.accelerator.training_type_plugin > Len(UserStrategies)
     /\ s.strategies[s.accelerator.training_type_plugin].cls \in ParallelPluginClasses) =>
        s.strategies[s.accelerator.training_type_plugin].cluster_environment
            = s.cluster_environment

EnvironmentChosen ==
    /\ conn.cluster_environment # NoObj
    /\ IsChosenEnvironment(conn.cluster_environment, inp.plugins, conn, inp)
    /\ Ok(conn) => select_cluster_environment(conn, inp) = Ret(conn, conn.cluster_environment)
    /\ (pc = "done" /\ ~IsAccelerator(conn.distributed_backend)) => StrategyHasEnvironment(conn)

EnvironmentKept == HgpPassed => conn'.cluster_environment = conn.cluster_environment

\* C16: once handle_given_plugins has passed there is exactly one cluster
\* environment: the hinted one, else the scheduler's when the scheduler
\* manages the tasks, else the elastic launcher's, else Kubeflow's, else the
\* default one; select_cluster_environment never fails, and every later
\* call and every read of cluster_environment give that same instance.
C16_OneClusterEnvironment ==
    [](HgpPassed => EnvironmentChosen) /\ [][EnvironmentKept]_vars

\* C16, witness: with both launchers active and no hint, the elastic
\* launcher's environment was chosen, and a read after the construction has
\* resolved the strategy with it.
C16_Witness ==
    /\ pc = "done" /\ Len(reads) >= 1
    /\ inp.is_using_torchelastic /\ inp.is_using_kubeflow
    /\ ~conn.is_slurm_managing_tasks
    /\ HintsOfKind(inp.plugins, "cluster_environment") = {}
    /\ conn.cluster_environment.cls = "TorchElasticEnvironment"
    /\ conn.accelerator.training_type_plugin > Len(UserStrategies)
    /\ conn.strategies[conn.accelerator.training_type_plugin].cluster_environment
           = conn.cluster_environment

\* The kinds of the DDP family other than DeepSpeed.
DdpKinds == DdpFamily \ {"deepspeed"}

\* The class that select_training_type_plugin gives, or the error it raises.
SelectedCls == Outcome(AsObj(select_training_type_plugin(conn, inp)))

\* The precedence of the classes, the device and the subprocess flag included.
ClsByPrecedence(s, e) ==
    IF s.distrib_type = "tpu_spawn" /\ on_tpu(s) THEN "TPUSpawnPlugin"
    ELSE IF s.distrib_type = "ddp_sharded" THEN "DDPShardedPlugin"
    ELSE IF s.distrib_type = "ddp_sharded_spawn" THEN "DDPSpawnShardedPlugin"
    ELSE IF \/ s.is_slurm_managing_tasks
            \/ e.is_using_kubeflow
            \/ e.is_using_torchelastic /\ (s.device_type = "CPU" \/ ~e.in_ddp_subprocess)
         THEN "DDPPlugin"
    ELSE IF s.distrib_type = "ddp_spawn" \/ s.device_type = "CPU" THEN "DDPSpawnPlugin"
    ELSE IF s.distrib_type = "ddp_fully_sharded" THEN "DDPFullyShardedPlugin"
    ELSE "DDPPlugin"

\* The precedence by the kind and the launchers alone.
ClsByKind(s, e) ==
    IF s.distrib_type = "tpu_spawn" THEN "TPUSpawnPlugin"
    ELSE IF s.distrib_type = "ddp_sharded" THEN "DDPShardedPlugin"
    ELSE IF s.distrib_type = "ddp_sharded_spawn" THEN "DDPSpawnShardedPlugin"
    ELSE IF s.is_slurm_managing_tasks \/ e.is_using_torchelastic \/ e.is_using_kubeflow
         THEN "DDPPlugin"
    ELSE IF s.distrib_type = "ddp_spawn" THEN "DDPSpawnPlugin"
    ELSE IF s.distrib_type = "ddp_fully_sharded" THEN "DDPFullyShardedPlugin"
    ELSE "DDPPlugin"

\* C17 (as amended): for a resolved kind of the DDP family other than
\* DeepSpeed, select_training_type_plugin picks the class by precedence:
\* TPU-spawn kind with TPU cores -> TPU-spawn; DDP-sharded -> sharded;
\* DDP-sharded-spawn -> sharded-spawn; scheduler-managed, Kubeflow active,
\* or elastic launcher active (on a device other than the CPU: and not in a
\* DDP subprocess) -> plain DDP; DDP-spawn kind or DeviceKind CPU ->
\* DDP-spawn; DDP-fully-sharded -> fully-sharded; otherwise plain DDP.
C17_DdpClassByPrecedence ==
    (Resolved /\ conn.distrib_type \in DdpKinds) => SelectedCls = ClsByPrecedence(conn, inp)

\* C17, witness: a construction has completed on the CPU with the kind
\* DDP-fully-sharded and no scheduler or launcher, and the accelerator holds
\* a DDP-spawn strategy.
C17_Witness ==
    /\ pc = "done"
    /\ conn.distrib_type = "ddp_fully_sharded" /\ conn.device_type = "CPU"
    /\ ~conn.is_slurm_managing_tasks
    /\ ~inp.is_using_torchelastic /\ ~inp.is_using_kubeflow
    /\ inp.plugins = <<>>
    /\ conn.strategies[conn.accelerator.training_type_plugin].cls = "DDPSpawnPlugin"

\* C17 (as stated): the class follows from the kind, the scheduler and the
\* launchers alone, whatever the DeviceKind.
C17_WhateverTheDevice ==
    (Resolved /\ conn.distrib_type \in DdpKinds) => SelectedCls = ClsByKind(conn, inp)

\* The kind has the interactive-compatible flag, or there is no kind.
InteractiveCompatible(kind) == kind = None \/ kind \in InteractiveCompatibleTypes

\* C18: in an interactive context no construction completes, and no
\* resolution pass returns, with a kind that lacks the
\* interactive-compatible flag: a pass, the first or a re-entry from a
\* string hint, that reaches such a kind ends in the interactive error, and
\* nothing after the guard makes the kind an incompatible one.
C18_InteractiveKindsOnly ==
    inp.is_interactive =>
        /\ Ok(conn) => InteractiveCompatible(conn.distrib_type)
        /\ ~InteractiveCompatible(conn.distrib_type) => conn.err = "InteractiveIncompatible"

\* The constructor's call of set_distributed_mode, without a backend argument.
FirstCall == pc = "set_distributed_mode" /\ Ok(conn)

\* The call leaves the device, the kind and the process count, and raises nothing.
ModeKept ==
    /\ conn'.device_type = conn.device_type
    /\ conn'.distrib_type = conn.distrib_type
    /\ conn'.num_processes = conn.num_processes
    /\ Ok(conn')

\* C19 (as amended): whenever the plugin hints contain a registered
\* strategy name, set_distributed_mode called without a backend argument
\* returns at once: it changes nothing of the connector, so neither the
\* DeviceKind nor the kind nor the process count, and raises no error.
C19_RegisteredNameSkipsInference ==
    [][(FirstCall /\ RegisteredHint(inp)) =>
           (conn' = conn /\ pc' = "configure_slurm_ddp")]_vars

\* C19, witness: the constructor's call has returned for the backend "ddp"
\* with GPUs and a registered name among the hints, and there is neither a
\* GPU DeviceKind nor a kind.
C19_Witness ==
    /\ pc = "configure_slurm_ddp"
    /\ RegisteredHint(inp)
    /\ inp.distributed_backend = "ddp" /\ inp.gpus = MaxGpus
    /\ conn.device_type = "CPU" /\ conn.distrib_type = None
    /\ conn.num_processes = inp.num_processes

\* C19 (as stated): whenever the plugin hints contain a strategy override,
\* a strategy object or a registered strategy name, set_distributed_mode
\* called without a backend argument changes neither the DeviceKind nor the
\* kind nor the process count and raises none of its errors.
C19_AnyOverrideSkipsInference ==
    [][(FirstCall /\ StrategyHinted(inp)) => ModeKept]_vars

\* The connector as the guard of lines 603-614 finds it in the constructor's call.
Pending(s, e) == SdmPromote(SdmSpecial(SdmInfer(s, e), e))

\* The guard's case: no GPU, a backend whose name does not mention "cpu",
\* and a pending kind that needs GPUs.
Downgrades(s) ==
    /\ num_gpus(s) = 0
    /\ s.distributed_backend \notin {"ddp_cpu"}
    /\ s.distrib_type \in {"dp", "ddp", "ddp_spawn", "ddp2"}

Parallel(s) == s.num_nodes > 1 \/ (s.num_processes # NoneInt /\ s.num_processes > 1)

\* What the call leaves of a pending connector that the guard has met.
GuardOutcome(pre, post) ==
    IF Downgrades(pre)
    THEN /\ "NoGpuFallback" \in post.warns
         /\ IF Parallel(pre)
            THEN post.distrib_type = "ddp" /\ "NoParallelization" \notin post.warns
            ELSE post.distrib_type = None /\ "NoParallelization" \in post.warns
    ELSE /\ post.distrib_type = pre.distrib_type
         /\ post.warns \cap {"NoGpuFallback", "NoParallelization"} = {}

\* C20: in set_distributed_mode, with no GPU, a backend name that does not
\* mention "cpu" and a pending kind among DP, DDP, DDP-spawn and DDP2, the
\* kind is downgraded with a warning: to DDP when there are several nodes
\* or processes, else to none, with the warning that distribution has no
\* effect; in every other case the guard leaves the kind as it is.  (Seen
\* at the end of the constructor's call, for the backends other than
\* "horovod", whose kind lines 629-631 set again after the guard.)
C20_GuardDowngrades ==
    [][(/\ FirstCall /\ FirstPassValidates(inp)
        /\ Ok(Pending(conn, inp))
        /\ Pending(conn, inp).distributed_backend # "horovod") =>
           GuardOutcome(Pending(conn, inp), conn')]_vars

\* C20, witness: the constructor's call has returned for the backend "ddp2"
\* without GPUs on several nodes, with the warning and the kind DDP.
C20_Witness ==
    /\ pc = "configure_slurm_ddp"
    /\ inp.distributed_backend = "ddp2" /\ inp.gpus = 0 /\ inp.num_nodes > 1
    /\ inp.plugins = <<>>
    /\ conn.distrib_type = "ddp"
    /\ "NoGpuFallback" \in conn.warns

\* C21: without the test-only override variable, the scheduler-managed flag
\* is true at the end of a construction only if the final kind is DDP (a
\* kind for which use_ddp holds) or DDP2; for any other final kind it is
\* false, whatever the task-count variable says.
C21_ManagedOnlyForDdp ==
    (pc = "done" /\ inp.fake_slurm \in {NoneInt, 0} /\ conn.is_slurm_managing_tasks) =>
        (use_ddp(conn) \/ use_ddp2(conn))

\* The accelerator class bound to a DeviceKind.
AcceleratorOf(device_type) ==
    IF device_type = "GPU" THEN "GPUAccelerator"
    ELSE IF device_type = "TPU" THEN "TPUAccelerator"
    ELSE IF device_type = "IPU" THEN "IPUAccelerator"
    ELSE "CPUAccelerator"

\* C22: when no custom accelerator is supplied, the accelerator that
\* select_accelerator has produced is of the class bound to the resolved
\* DeviceKind: GPU accelerator iff GPU, TPU accelerator iff TPU, IPU
\* accelerator iff IPU, CPU accelerator iff CPU.
C22_AcceleratorOfDeviceKind ==
    (pc \in {"finish", "done"} /\ ~IsAccelerator(inp.distributed_backend)) =>
        conn.accelerator.cls = AcceleratorOf(conn.device_type)

\* The strategy is one that the user made.
UserSupplied(id, e) == id <= Len(e.strategies)

IsUnset(devs) == devs.kind = "None"

IsSet(devs) == devs.kind \notin {"None", "absent"}

\* The trainer's settings are the strategy's, where it has such fields.
SettingsFilled(st, s) ==
    /\ st.num_nodes # AbsentInt => st.num_nodes = s.num_nodes
    /\ st.sync_batchnorm # AbsentInt => st.sync_batchnorm = s.sync_batchnorm

\* The devices are the connector's, and the process count is their number.
DevicesFilled(st, devs) ==
    /\ st.parallel_devices = devs
    /\ st.num_processes # AbsentInt => st.num_processes = Len(devs.ids)

\* What a user's strategy held is kept where it was set, and filled where not.
UserStrategyFilled(st, was, s, e) ==
    /\ IsUnset(was.parallel_devices) => DevicesFilled(st, parallel_devices(s, e))
    /\ IsSet(was.parallel_devices) =>
          st.parallel_devices = was.parallel_devices /\ st.num_processes = was.num_processes
    /\ was.cluster_environment \notin {NoObj, AbsentObj} =>
          st.cluster_environment = was.cluster_environment

\* A strategy of the connector's making has the connector's devices.
OwnStrategyFilled(st, s, e) ==
    st.parallel_devices # AbsentDevices => DevicesFilled(st, parallel_devices(s, e))

Backfilled(id, s, e) ==
    /\ SettingsFilled(s.strategies[id], s)
    /\ IF UserSupplied(id, e)
       THEN UserStrategyFilled(s.strategies[id], e.strategies[id], s, e)
       ELSE OwnStrategyFilled(s.strategies[id], s, e)

Ended == pc = "done" \/ ~Ok(conn)

\* The orders in which a list of hints can be given.
Orders(hs) ==
    { [i \in 1..Len(hs) |-> hs[f[i]]] :
        f \in {g \in [1..Len(hs) -> 1..Len(hs)] :
                  \A i, j \in 1..Len(hs) : g[i] = g[j] => i = j} }

\* The class of the strategy that the connector holds, if it holds one.
HeldStrategyCls(s) ==
    IF s.training_type_plugin = 0 THEN None ELSE s.strategies[s.training_type_plugin].cls

\* Two constructions both fail, or both complete with the same devices,
\* kind, backend, overrides and strategy class.
SameOutcome(a, b) ==
    IF ~Ok(a) \/ ~Ok(b) THEN ~Ok(a) /\ ~Ok(b)
    ELSE /\ a.device_type = b.device_type
         /\ a.distrib_type = b.distrib_type
         /\ a.distributed_backend = b.distributed_backend
         /\ HeldStrategyCls(a) = HeldStrategyCls(b)
         /\ a.precision_plugin.cls = b.precision_plugin.cls
         /\ a.cluster_environment.cls = b.cluster_environment.cls

\* C24: the outcome of a construction does not depend on the order of the
\* plugin hints: with the hints in any other order it fails as well, or
\* completes as well with the same DeviceKind, kind, backend name,
\* overrides and strategy class.
C24_HintOrderIsIrrelevant ==
    Ended => \A hs \in Orders(inp.plugins) :
                 SameOutcome(conn, Construct([inp EXCEPT !.plugins = hs]))

\* C25: in every state of a completed construction the DeviceKind GPU
\* implies a GPU count, the length of the list of GPU ids, above zero, also
\* after set_distributed_mode has been re-entered from a string hint.
C25_GpuKindHasGpus ==
    (Constructed /\ conn.device_type = "GPU") => num_gpus(conn) > 0

\* The only hint is a string.
OneStringHint(e) == Len(e.plugins) = 1 /\ e.plugins[1].kind = "str"

\* The inputs with the string hint as the backend and no hints.
HintAsBackend(e) ==
    [e EXCEPT !.distributed_backend = e.plugins[1].name, !.plugins = <<>>]

\* Two constructions fail alike, or complete with the same DeviceKind, kind,
\* process count and list of GPU ids.
SameMode(a, b) ==
    IF ~Ok(a) \/ ~Ok(b) THEN a.err = b.err
    ELSE /\ a.device_type = b.device_type
         /\ a.distrib_type = b.distrib_type
         /\ a.num_processes = b.num_processes
         /\ a.parallel_device_ids = b.parallel_device_ids

\* C26: a string hint overrides all that was inferred before it: a
\* construction with a backend and the one hint s ends with the DeviceKind,
\* the kind, the process count and the list of GPU ids, or with the
\* failure, of the construction with the backend s and no hints, all other
\* inputs being equal.
C26_StringHintOverridesBackend ==
    (Ended /\ OneStringHint(inp)) => SameMode(conn, Construct(HintAsBackend(inp)))

====
